---- MODULE Spec2Model ----
(***************************************************************************)
(* Metadata-Sniffer: the job controller of web_app.py (the request         *)
(* handlers start/pause/resume/stop/progress and the background worker     *)
(* run_extraction) together with the part of                               *)
(* MetadataExtractor.extract_folder the worker drives through its          *)
(* progress callback.                                                      *)
(*                                                                         *)
(* Granularity.  Every access of a worker to stop_event / pause_event is   *)
(* one step (they are read and written outside extraction_lock).  A        *)
(* `with extraction_lock:` block of a worker is one step, enabled only     *)
(* while no request handler is inside its own `with extraction_lock:`      *)
(* block.  A request handler holds the lock for its whole body; its        *)
(* accesses to the two events are separate steps (hpc is its position).    *)
(* Under NextRead update_progress is split into its four writes, because   *)
(* get_progress serialises extraction_state after it released the lock.    *)
(*                                                                         *)
(* SpecTraverse is MetadataExtractor._collect_files_recursively on its     *)
(* own, over every small store of containers and leaves; SpecSched is the  *)
(* sequential and the parallel loop of extract_folder on its own, over     *)
(* every small list of files.                                              *)
(* SpecBlocking is the same loop when a call of _process_file may never    *)
(* return.  SpecScenario is the job controller over a root that holds      *)
(* three files, of which one may be trashed.  SpecWorkers,                 *)
(* SpecHash and SpecNormalize look at one function each:                   *)
(* MetadataExtractor.__init__, create_forensic_hash_data followed by       *)
(* json.dump, and extract_file_metadata.                                   *)
(* SpecListAll is extract_folder's listing of the whole store, SpecExport  *)
(* the exporters on a list of records they share with their caller, and    *)
(* SpecStart the job controller with the folder reference of the start     *)
(* requests resolved by extract_folder_id_from_url.                        *)
(***************************************************************************)
EXTENDS Integers, Sequences, FiniteSets, Bags, TLC

\* ------------------------------------------------------------------ bounds
\* number of start requests accepted in one behaviour of SpecRestart (= worker threads)
MaxStarts == 2
\* number of start requests accepted in one behaviour of Spec
OneJob == 1
\* number of pause, resume and stop requests issued in one behaviour of SpecRestart
MaxRequests == 2
\* number of files the store of SpecRestart holds
PlainFiles == 1
\* number of files the remote listing returns to one job, over all its pages
MaxFiles == 2

\* pages in the listing of one container, and children on one page
MaxPages == 2
PageSize == 2

\* files handed to the scheduler, and how many of them fail to extract
MaxItems == 11
MaxBad == 2

\* the largest magnitude of a requested number of workers
MaxAsked == 30

\* records in the list handed to create_forensic_hash_data
MaxRecords == 2

\* ------------------------------------------------------- program constants
\* extractor.py:411  batch_size = min(10, len(all_files))
BatchLimit == 10
\* extractor.py:35   self.max_workers = max(1, min(max_workers, 4))
WorkerCap == 4

Threads == 1..MaxStarts

\* Python's None for a field that otherwise holds a value: the empty tuple;
\* a value v is held as <<v>>.
None == <<>>
Some(v) == <<v>>

VARIABLES
    extraction_state,  \* web_app.py:40 the shared dict
    pause_event,       \* web_app.py:58 threading.Event, TRUE = set
    stop_event,        \* web_app.py:59
    hpc,               \* position of the request handler that holds extraction_lock
    uplock,            \* worker that holds extraction_lock inside update_progress, 0 if none
    nstarted,          \* number of worker threads created so far
    quota,             \* number of start requests the clients will still have accepted
    budget,            \* number of pause/resume/stop requests the clients will still issue,
                       \* -1 when they issue any number
    pc,                \* pc[t]: position of worker t in run_extraction / extract_folder
    cb,                \* cb[t]: position of worker t inside progress_callback / update_progress
    max_workers,       \* max_workers[t]: MetadataExtractor.max_workers of job t
    files,             \* files[t]: len(all_files)
    more,              \* more[t]: the last page carried a nextPageToken
    processed,         \* processed[t]: processed_count
    nmeta,             \* nmeta[t]: len(all_metadata)
    inflight,          \* inflight[t]: futures of the current batch still running
    fin,               \* fin[t]: futures of the current batch finished, not yet collected
    exc,               \* exc[t]: the exception propagating in worker t, None if none
    written,           \* written[t]: exports written by job t (0..3: csv, json, pdf in order)
    world,             \* "leaves", "leaves and trashed": the folder of ScenarioChildren
                       \* is extracted without, or with, its trashed files, no call
                       \* fails and the requests carry any `workers`;
                       \* "full": the store and the calls behave in any way;
                       \* "plain": the store holds PlainFiles files on one page, no
                       \* authentication, item or export fails, requests carry no `workers`
    stopWork,          \* a stop accepted since the last start found the newest job
                       \* collecting or processing
    stopN,             \* the number of workers created before the first accepted stop
    late,              \* -1 until a stop request is accepted, then the page fetches and
                       \* item extractions (batch submissions in parallel mode) begun since
                       \* by the workers created before it, capped at 2
    reader,            \* position of the get_progress request
    snap,              \* the dict get_progress serialised last
    pre,               \* the progress fields before the update_progress now in progress
    store,             \* store[c]: the pages the remote store returns for the listing of
                       \* container c, each page the set of the children it carries
    stack,             \* the frames of _collect_files_recursively, innermost last
    visited_folders,   \* the set shared by all frames of one traversal
    traversal,         \* "idle", "running", "returned", "raised": extract_folder's view of
                       \* the call at line 334
    collected,         \* all_files of extract_folder once the call returned
    failed,            \* a files().list call of this traversal raised HttpError
    observed,          \* what the traversal did so far: the 'collecting' callbacks it
                       \* made and the folders whose listing it began, in order
    items,             \* the scheduler's input all_files: the identifiers, in order
    bad,               \* the identifiers whose extract_file_metadata raises
    sched,             \* the scheduler run in progress, and the result of the run before
    call               \* a function looked at on its own: its name, arguments and result

ctl == <<extraction_state, pause_event, stop_event>>
locals == <<pc, cb, max_workers, files, more, processed, nmeta, inflight, fin, exc, written>>
ghost == <<stopWork, stopN, late>>
rd == <<reader, snap, pre>>
env == <<quota, budget, world>>
\* the job controller of web_app.py
web == <<ctl, hpc, uplock, nstarted, env, locals, ghost, rd>>
\* the recursive traversal on its own
trav == <<store, stack, visited_folders, traversal, collected, failed, observed>>
\* the extraction scheduler on its own
schd == <<items, bad, sched>>
aux == <<trav, schd, call>>
vars == <<web, aux>>

Min(a, b) == IF a < b THEN a ELSE b
Max(a, b) == IF a > b THEN a ELSE b

\* a message: the fixed text and the (at most two) numbers formatted into it
Msg(text, a, b) == <<text, a, b>>

IdleState(message) ==
    [status |-> "idle", progress |-> 0, total |-> 0, current_phase |-> "",
     message |-> message, metadata |-> None, output_path |-> None,
     error |-> None, start_time |-> None]

\* extraction_lock can be taken
LockFree == hpc = "none" /\ uplock = 0

\* the state after the module is loaded (web_app.py lines 40-59), no request yet
Loaded ==
    /\ extraction_state = IdleState(Msg("", 0, 0))
    /\ pause_event = FALSE
    /\ stop_event = FALSE
    /\ hpc = "none"
    /\ uplock = 0
    /\ nstarted = 0
    /\ pc = [t \in Threads |-> "unborn"]
    /\ cb = [t \in Threads |-> "none"]
    /\ max_workers = [t \in Threads |-> 1]
    /\ files = [t \in Threads |-> 0]
    /\ more = [t \in Threads |-> FALSE]
    /\ processed = [t \in Threads |-> 0]
    /\ nmeta = [t \in Threads |-> 0]
    /\ inflight = [t \in Threads |-> 0]
    /\ fin = [t \in Threads |-> 0]
    /\ exc = [t \in Threads |-> None]
    /\ written = [t \in Threads |-> 0]
    /\ stopWork = FALSE
    /\ stopN = 0
    /\ late = -1
    /\ reader = "none"
    /\ snap = None
    /\ pre = None

\* no traversal and no scheduler run is looked at on its own
NoTraversal ==
    /\ store = <<>>
    /\ stack = <<>>
    /\ visited_folders = {}
    /\ traversal = "idle"
    /\ collected = <<>>
    /\ failed = FALSE
    /\ observed = <<>>

NoSchedule ==
    /\ items = <<>>
    /\ bad = {}
    /\ sched = <<>>

NoCall == call = <<>>

\* one job, any number of pause/resume/stop requests
Init ==
    /\ Loaded /\ quota = OneJob /\ budget = -1 /\ world = "full"
    /\ NoTraversal /\ NoSchedule /\ NoCall

\* several jobs, which may overlap, and a bounded number of other requests
InitRestart ==
    /\ Loaded /\ quota = MaxStarts /\ budget = MaxRequests /\ world = "plain"
    /\ NoTraversal /\ NoSchedule /\ NoCall

\* a folder without subfolders: its three files, one of them in the trash
ScenarioChildren == {"x", "y", "z"}
ScenarioTrashed == {"z"}
ScenarioWorlds == {"leaves", "leaves and trashed"}

\* one job on that folder and a bounded number of other requests
InitScenario ==
    /\ Loaded /\ quota = OneJob /\ budget = MaxRequests /\ world \in ScenarioWorlds
    /\ NoTraversal /\ NoSchedule /\ NoCall

\* web_app.py 889: the include_trashed of the start request
include_trashed == world = "leaves and trashed"

\* Listed with the defect of a query that never names the trash
Listed_unfiltered(with_trashed) == ScenarioChildren

\* extractor.py 260-264 (and 336-340): the query is "'<folder_id>' in
\* parents", and "trashed = false" is added to it unless include_trashed;
\* the files the store lists for it
Listed(with_trashed) ==
    IF with_trashed THEN ScenarioChildren ELSE ScenarioChildren \ ScenarioTrashed

\* what may happen to a call whose success the worker does not control
Outcomes == IF world = "full" THEN BOOLEAN ELSE {TRUE}
\* the files the store may return to one job, and the nextPageToken of a page
FilesLimit == IF world = "full" THEN MaxFiles ELSE PlainFiles
Tokens == IF world = "full" THEN BOOLEAN ELSE {FALSE}
\* the sizes of the non-empty page a files().list call of worker t may return
PageSizes(t) ==
    IF world \in ScenarioWorlds THEN {Cardinality(Listed(include_trashed))}
    ELSE 1..(FilesLimit - files[t])

\* ------------------------------------------------------------------ worker
\* the call sites of progress_callback in extract_folder
CallSites == {"e329", "e360", "e369", "e460", "e375", "e379", "e397", "e439", "e454"}

\* worker t moves to position p; at a call site it enters progress_callback
Go(t, p) ==
    /\ pc' = [pc EXCEPT ![t] = p]
    /\ cb' = [cb EXCEPT ![t] = IF p \in CallSites THEN "c765" ELSE "none"]

\* worker t returns from run_extraction: the thread ends, its frame is gone
Finish(t) ==
    /\ pc' = [pc EXCEPT ![t] = "done"]
    /\ cb' = [cb EXCEPT ![t] = "none"]
    /\ max_workers' = [max_workers EXCEPT ![t] = 1]
    /\ written' = [written EXCEPT ![t] = 0]
    /\ files' = [files EXCEPT ![t] = 0]
    /\ more' = [more EXCEPT ![t] = FALSE]
    /\ processed' = [processed EXCEPT ![t] = 0]
    /\ nmeta' = [nmeta EXCEPT ![t] = 0]
    /\ inflight' = [inflight EXCEPT ![t] = 0]
    /\ fin' = [fin EXCEPT ![t] = 0]
    /\ exc' = [exc EXCEPT ![t] = None]

counts == <<files, more, processed, nmeta, inflight, fin>>
frame == <<max_workers, counts, exc, written>>

\* the arguments (status, progress, total, message) of the progress_callback
\* call worker t is in
CbArgs(t) ==
    CASE pc[t] = "e329" -> <<"collecting", 0, 0, Msg("Collecting file list from Google Drive...", 0, 0)>>
      [] pc[t] = "e360" -> <<"collecting", files[t], 0, Msg("Found files so far", files[t], 0)>>
      [] pc[t] = "e369" -> <<"error", 0, 0, Msg("API error", 0, 0)>>
      [] pc[t] = "e460" -> <<"error", 0, 0, Msg("Error", 0, 0)>>
      [] pc[t] = "e375" -> <<"error", 0, 0, Msg("No files found to extract", 0, 0)>>
      [] pc[t] = "e379" -> <<"processing", 0, files[t], Msg("Processing files with workers", files[t], max_workers[t])>>
      [] pc[t] \in {"e397", "e439"} ->
            <<"processing", processed[t], files[t], Msg("Processed files", processed[t], files[t])>>
      [] pc[t] = "e454" -> <<"completed", nmeta[t], files[t], Msg("Successfully extracted files", nmeta[t], 0)>>
      [] pc[t] = "r744" -> <<"authenticating", 0, 0, Msg("Authenticating with Google Drive...", 0, 0)>>
      [] pc[t] = "r755" -> <<"initializing", 0, 0, Msg("Initializing extractor...", 0, 0)>>

\* where extract_folder goes on after the progress_callback call at pc[t]
AfterCb(t) ==
    CASE pc[t] = "e329" -> "e345"
      [] pc[t] = "e360" -> IF more[t] THEN "e345" ELSE "e379"
      [] pc[t] = "e369" -> "e460"
      [] pc[t] = "e460" -> "r856"
      [] pc[t] = "e375" -> "r787"
      [] pc[t] = "e379" -> IF max_workers[t] = 1 THEN "e389" ELSE "e418"
      [] pc[t] = "e397" -> IF processed[t] < files[t] THEN "e389" ELSE "e454"
      [] pc[t] = "e439" -> IF inflight[t] + fin[t] > 0 THEN "e426"
                           ELSE IF processed[t] < files[t] THEN "e418" ELSE "e454"
      [] pc[t] = "e454" -> "r787"
      [] pc[t] = "r744" -> "r745"
      [] pc[t] = "r755" -> "r756"

\* update_progress: the four fields it writes
Updated(st, a) ==
    [st EXCEPT !.current_phase = a[1], !.progress = a[2], !.total = a[3], !.message = a[4]]

\* run_extraction line 723: pause_event.clear(), outside the lock
run_extraction_723(t) ==
    /\ pc[t] = "r723"
    /\ pause_event' = FALSE
    /\ Go(t, "r724")
    /\ UNCHANGED <<extraction_state, stop_event, hpc, uplock, nstarted, env, frame, ghost, rd>>
    /\ UNCHANGED aux

\* run_extraction line 724: stop_event.clear(), outside the lock
run_extraction_724(t) ==
    /\ pc[t] = "r724"
    /\ stop_event' = FALSE
    /\ Go(t, "r727")
    /\ UNCHANGED <<extraction_state, pause_event, hpc, uplock, nstarted, env, frame, ghost, rd>>
    /\ UNCHANGED aux

\* run_extraction lines 727-736: the job's first write of the state
run_extraction_727(t) ==
    /\ pc[t] = "r727"
    /\ LockFree
    /\ extraction_state' = [extraction_state EXCEPT
            !.status = "running", !.progress = 0, !.total = 0, !.error = None,
            !.start_time = Some("now"), !.current_phase = "authenticating",
            !.message = Msg("Connecting to Google Drive...", 0, 0),
            !.metadata = None, !.output_path = None]
    /\ Go(t, "r738")
    /\ UNCHANGED <<pause_event, stop_event, hpc, uplock, nstarted, env, frame, ghost, rd>>
    /\ UNCHANGED aux

\* AfterStopCheck with the defect of a missing `if not metadata: raise`
\* (line 793): an empty result goes on to the exports
AfterStopCheck_no_empty_test(t) ==
    CASE pc[t] = "r738" -> "r744"
      [] pc[t] = "r745" -> "r751"
      [] pc[t] = "r756" -> "e329"
      [] pc[t] = "r787" -> "r796"
      [] pc[t] = "r796" -> "r802"
      [] pc[t] = "r812" -> "r818"
      [] pc[t] = "r822" -> "r828"
      [] pc[t] = "r832" -> "r838"
      [] pc[t] = "r842" -> "r848"

\* the position after each `if stop_event.is_set():` of run_extraction that
\* finds the event clear (line 793 raises when the extraction returned nothing)
AfterStopCheck(t) ==
    CASE pc[t] = "r738" -> "r744"
      [] pc[t] = "r745" -> "r751"
      [] pc[t] = "r756" -> "e329"
      [] pc[t] = "r787" -> IF nmeta[t] = 0 THEN "r856" ELSE "r796"
      [] pc[t] = "r796" -> "r802"
      [] pc[t] = "r812" -> "r818"
      [] pc[t] = "r822" -> "r828"
      [] pc[t] = "r832" -> "r838"
      [] pc[t] = "r842" -> "r848"

StopChecks == {"r738", "r745", "r756", "r787", "r796", "r812", "r822", "r832", "r842"}

\* run_extraction lines 738, 745, 756, 787, 796, 812, 822, 832, 842:
\* `if stop_event.is_set():`, read outside the lock
run_extraction_stop_check(t) ==
    /\ pc[t] \in StopChecks
    /\ IF stop_event
         THEN /\ Go(t, "r_stopped")
              /\ UNCHANGED exc
         ELSE /\ Go(t, AfterStopCheck(t))
              /\ exc' = [exc EXCEPT ![t] =
                    IF pc[t] = "r787" /\ nmeta[t] = 0
                      THEN Some("No files found to extract") ELSE @]
    /\ UNCHANGED <<ctl, hpc, uplock, nstarted, env, max_workers, counts, written, ghost, rd>>
    /\ UNCHANGED aux

\* the body of each of those ifs: status 'stopped' under the lock, return
run_extraction_stopped(t) ==
    /\ pc[t] = "r_stopped"
    /\ LockFree
    /\ extraction_state' = [extraction_state EXCEPT
            !.status = "stopped", !.message = Msg("Extraction stopped by user", 0, 0)]
    /\ Finish(t)
    /\ UNCHANGED <<pause_event, stop_event, hpc, uplock, nstarted, env, ghost, rd>>
    /\ UNCHANGED aux

\* update_progress (lines 707-716), called directly (744, 755) or as the last
\* statement of progress_callback (779): one critical section
update_progress(t) ==
    /\ \/ pc[t] \in {"r744", "r755"} /\ cb[t] = "none"
       \/ cb[t] = "c779"
    /\ LockFree
    /\ extraction_state' = Updated(extraction_state, CbArgs(t))
    /\ Go(t, AfterCb(t))
    /\ UNCHANGED <<pause_event, stop_event, hpc, uplock, nstarted, env, frame, ghost, rd>>
    /\ UNCHANGED aux

\* run_extraction lines 751-753: authenticate() and test_connection(); either
\* may fail, which raises
run_extraction_751(t) ==
    /\ pc[t] = "r751"
    /\ \E ok \in Outcomes :
         IF ok THEN Go(t, "r755") /\ UNCHANGED exc
               ELSE Go(t, "r856") /\ exc' = [exc EXCEPT ![t] = Some("Could not establish connection")]
    /\ UNCHANGED <<ctl, hpc, uplock, nstarted, env, max_workers, counts, written, ghost, rd>>
    /\ UNCHANGED aux

\* one more page fetch / item extraction of worker t, counted once a stop
\* request was accepted during its job
Bump(t) == IF late >= 0 /\ t <= stopN THEN Min(late + 1, 2) ELSE late

\* extract_folder lines 343-371: one files().list(...).execute() of the
\* listing loop.  The store answers with a page of k >= 1 files (with or
\* without a nextPageToken), with an empty page, or with an HttpError; for
\* the folder of ScenarioChildren it answers with the one page of the files
\* the query selects.
extract_folder_345(t) ==
    /\ pc[t] = "e345"
    /\ \/ \E k \in PageSizes(t), token \in Tokens :
            /\ files' = [files EXCEPT ![t] = @ + k]
            /\ more' = [more EXCEPT ![t] = token]
            /\ Go(t, "e360")
            /\ UNCHANGED exc
       \/ /\ world \notin ScenarioWorlds
          /\ more' = [more EXCEPT ![t] = FALSE]
          /\ Go(t, IF files[t] = 0 THEN "e375" ELSE "e379")
          /\ UNCHANGED <<files, exc>>
       \/ /\ world \notin ScenarioWorlds
          /\ exc' = [exc EXCEPT ![t] = Some("HttpError")]
          /\ Go(t, "e369")
          /\ UNCHANGED <<files, more>>
    /\ late' = Bump(t)
    /\ UNCHANGED <<ctl, hpc, uplock, nstarted, env, max_workers, processed, nmeta, inflight, fin,
                   written, stopWork, stopN, rd>>
    /\ UNCHANGED aux

\* extract_folder lines 387-394: sequential mode, _process_file on the next
\* file; it returns the record, or None when extract_file_metadata raised
extract_folder_389(t) ==
    /\ pc[t] = "e389"
    /\ \E ok \in Outcomes :
         nmeta' = [nmeta EXCEPT ![t] = IF ok THEN @ + 1 ELSE @]
    /\ processed' = [processed EXCEPT ![t] = @ + 1]
    /\ Go(t, "e397")
    /\ late' = Bump(t)
    /\ UNCHANGED <<ctl, hpc, uplock, nstarted, env, max_workers, files, more, inflight, fin, exc,
                   written, stopWork, stopN, rd>>
    /\ UNCHANGED aux

\* the batch extract_folder submits at line 415 when processed_count files
\* are behind it
BatchSize(t) == Min(Min(BatchLimit, files[t]), files[t] - processed[t])

\* extract_folder lines 414-424: parallel mode, the next batch is submitted
\* to the ThreadPoolExecutor
extract_folder_418(t) ==
    /\ pc[t] = "e418"
    /\ inflight' = [inflight EXCEPT ![t] = BatchSize(t)]
    /\ Go(t, "e426")
    /\ late' = Bump(t)
    /\ UNCHANGED <<ctl, hpc, uplock, nstarted, env, max_workers, files, more, processed, nmeta, fin, exc,
                   written, stopWork, stopN, rd>>
    /\ UNCHANGED aux

\* a pool thread finishes _process_file (lines 220-234) on a submitted file
pool_process_file(t) ==
    /\ pc[t] \in {"e426", "e439"}
    /\ inflight[t] > 0
    /\ inflight' = [inflight EXCEPT ![t] = @ - 1]
    /\ fin' = [fin EXCEPT ![t] = @ + 1]
    /\ UNCHANGED <<ctl, hpc, uplock, nstarted, env, pc, cb, max_workers, files, more, processed, nmeta,
                   exc, written, ghost, rd>>
    /\ UNCHANGED aux

\* extract_folder lines 426-436: as_completed yields a finished future and
\* its result is counted
extract_folder_426(t) ==
    /\ pc[t] = "e426"
    /\ fin[t] > 0
    /\ fin' = [fin EXCEPT ![t] = @ - 1]
    /\ \E ok \in Outcomes :
         nmeta' = [nmeta EXCEPT ![t] = IF ok THEN @ + 1 ELSE @]
    /\ processed' = [processed EXCEPT ![t] = @ + 1]
    /\ Go(t, "e439")
    /\ UNCHANGED <<ctl, hpc, uplock, nstarted, env, max_workers, files, more, inflight, exc,
                   written, ghost, rd>>
    /\ UNCHANGED aux

\* ------------------------------------------------------- progress_callback
\* a return of progress_callback to extract_folder
Return(t) == Go(t, AfterCb(t))

cbframe == <<ctl, hpc, uplock, nstarted, env, frame, ghost, rd>>

\* line 765: if stop_event.is_set(): return
progress_callback_765(t) ==
    /\ cb[t] = "c765"
    /\ IF stop_event THEN Return(t) ELSE cb' = [cb EXCEPT ![t] = "c767"] /\ UNCHANGED pc
    /\ UNCHANGED cbframe
    /\ UNCHANGED aux

\* line 767: if pause_event.is_set():
progress_callback_767(t) ==
    /\ cb[t] = "c767"
    /\ cb' = [cb EXCEPT ![t] = IF pause_event THEN "c768" ELSE "c779"]
    /\ UNCHANGED <<pc, cbframe>>
    /\ UNCHANGED aux

\* progress_callback_768 with the defect of writing the status without
\* taking extraction_lock
progress_callback_768_unlocked(t) ==
    /\ cb[t] = "c768"
    /\ extraction_state' = [extraction_state EXCEPT
            !.status = "paused", !.message = Msg("Extraction paused. Click Resume to continue.", 0, 0)]
    /\ cb' = [cb EXCEPT ![t] = "c771"]
    /\ UNCHANGED <<pc, pause_event, stop_event, hpc, uplock, nstarted, env, frame, ghost, rd>>
    /\ UNCHANGED aux

\* lines 768-770: status 'paused' under the lock
progress_callback_768(t) ==
    /\ cb[t] = "c768"
    /\ LockFree
    /\ extraction_state' = [extraction_state EXCEPT
            !.status = "paused", !.message = Msg("Extraction paused. Click Resume to continue.", 0, 0)]
    /\ cb' = [cb EXCEPT ![t] = "c771"]
    /\ UNCHANGED <<pc, pause_event, stop_event, hpc, uplock, nstarted, env, frame, ghost, rd>>
    /\ UNCHANGED aux

\* progress_callback_771 with the defect of a wait loop that tests the wrong
\* event: while not stop_event.is_set()
progress_callback_771_wrong_event(t) ==
    /\ cb[t] = "c771"
    /\ cb' = [cb EXCEPT ![t] = IF ~stop_event THEN "c771s" ELSE "c773"]
    /\ UNCHANGED <<pc, cbframe>>
    /\ UNCHANGED aux

\* line 771, first operand: while pause_event.is_set() ...
progress_callback_771(t) ==
    /\ cb[t] = "c771"
    /\ cb' = [cb EXCEPT ![t] = IF pause_event THEN "c771s" ELSE "c773"]
    /\ UNCHANGED <<pc, cbframe>>
    /\ UNCHANGED aux

\* line 771, second operand: ... and not stop_event.is_set(): time.sleep(0.1)
progress_callback_771s(t) ==
    /\ cb[t] = "c771s"
    /\ cb' = [cb EXCEPT ![t] = IF stop_event THEN "c773" ELSE "c771"]
    /\ UNCHANGED <<pc, cbframe>>
    /\ UNCHANGED aux

\* line 773: if stop_event.is_set(): return
progress_callback_773(t) ==
    /\ cb[t] = "c773"
    /\ IF stop_event THEN Return(t) ELSE cb' = [cb EXCEPT ![t] = "c775"] /\ UNCHANGED pc
    /\ UNCHANGED cbframe
    /\ UNCHANGED aux

\* lines 775-778: back to 'running' if the status is still 'paused'
progress_callback_775(t) ==
    /\ cb[t] = "c775"
    /\ LockFree
    /\ extraction_state' =
         IF extraction_state.status = "paused"
           THEN [extraction_state EXCEPT
                    !.status = "running", !.message = Msg("Resuming extraction...", 0, 0)]
           ELSE extraction_state
    /\ cb' = [cb EXCEPT ![t] = "c779"]
    /\ UNCHANGED <<pc, pause_event, stop_event, hpc, uplock, nstarted, env, frame, ghost, rd>>
    /\ UNCHANGED aux

\* --------------------------------------------------- run_extraction, exports
\* lines 802-806: the exporting phase is announced under the lock
run_extraction_802(t) ==
    /\ pc[t] = "r802"
    /\ LockFree
    /\ extraction_state' = [extraction_state EXCEPT
            !.total = nmeta[t], !.progress = nmeta[t],
            !.current_phase = "Exporting results...",
            !.message = Msg("Exporting files...", nmeta[t], 0)]
    /\ Go(t, "r812")
    /\ UNCHANGED <<pause_event, stop_event, hpc, uplock, nstarted, env, frame, ghost, rd>>
    /\ UNCHANGED aux

\* AfterExport with the defect of an if/elif chain over the export formats:
\* after the first export the worker skips the other two
AfterExport_elif(p) == "r842"

\* the exporter called at each position, as the number of exports written after it
ExportAt(p) == CASE p = "r818" -> 1 [] p = "r828" -> 2 [] p = "r838" -> 3
AfterExport(p) == CASE p = "r818" -> "r822" [] p = "r828" -> "r832" [] p = "r838" -> "r842"

\* lines 818-820, 828-830, 838-840: CSVExporter / JSONExporter / PDFExporter
\* .export(metadata) writes its file, or raises (the output file cannot be
\* written)
run_extraction_export(t) ==
    /\ pc[t] \in {"r818", "r828", "r838"}
    /\ \E ok \in Outcomes :
         IF ok THEN /\ written' = [written EXCEPT ![t] = ExportAt(pc[t])]
                    /\ Go(t, AfterExport(pc[t]))
                    /\ UNCHANGED exc
               ELSE /\ exc' = [exc EXCEPT ![t] = Some("export failed")]
                    /\ Go(t, "r856")
                    /\ UNCHANGED written
    /\ UNCHANGED <<ctl, hpc, uplock, nstarted, env, max_workers, counts, ghost, rd>>
    /\ UNCHANGED aux

\* lines 848-853: status 'completed', the records and the output path
run_extraction_848(t) ==
    /\ pc[t] = "r848"
    /\ LockFree
    /\ extraction_state' = [extraction_state EXCEPT
            !.status = "completed", !.metadata = Some(nmeta[t]),
            !.output_path = Some("output/name"),
            !.message = Msg("Successfully extracted files!", nmeta[t], 0)]
    /\ Finish(t)
    /\ UNCHANGED <<pause_event, stop_event, hpc, uplock, nstarted, env, ghost, rd>>
    /\ UNCHANGED aux

\* lines 855-856: except Exception: if not stop_event.is_set():
run_extraction_856(t) ==
    /\ pc[t] = "r856"
    /\ IF stop_event
         THEN Finish(t)
         ELSE Go(t, "r857") /\ UNCHANGED frame
    /\ UNCHANGED <<ctl, hpc, uplock, nstarted, env, ghost, rd>>
    /\ UNCHANGED aux

\* run_extraction_857 with the defect of an except branch that drops str(e)
run_extraction_857_no_detail(t) ==
    /\ pc[t] = "r857"
    /\ LockFree
    /\ extraction_state' = [extraction_state EXCEPT
            !.status = "error", !.message = Msg("Error: ", 0, 0)]
    /\ Finish(t)
    /\ UNCHANGED <<pause_event, stop_event, hpc, uplock, nstarted, env, ghost, rd>>
    /\ UNCHANGED aux

\* lines 857-860: status 'error' with str(e), under the lock
run_extraction_857(t) ==
    /\ pc[t] = "r857"
    /\ LockFree
    /\ extraction_state' = [extraction_state EXCEPT
            !.status = "error", !.error = exc[t], !.message = Msg("Error: ", 0, 0)]
    /\ Finish(t)
    /\ UNCHANGED <<pause_event, stop_event, hpc, uplock, nstarted, env, ghost, rd>>
    /\ UNCHANGED aux

\* EffectiveWorkers with the defect of a missing lower bound
EffectiveWorkers_no_floor(w) == IF w = None THEN 1 ELSE Min(w[1], WorkerCap)

\* ----------------------------------------------------------- request handlers
\* MetadataExtractor.__init__ lines 33-35: None means 1, else clamped to 1..4
EffectiveWorkers(w) == IF w = None THEN 1 ELSE Max(1, Min(w[1], WorkerCap))

\* the `workers` values a start request carries
WorkerInputs == {None, Some(0), Some(WorkerCap + 1)}

\* the newest worker is inside extract_folder's collecting or processing part
Working(t) == pc[t] \in {"e329", "e345", "e360", "e379", "e389", "e397", "e418", "e426", "e439"}

hframe == <<uplock, locals, rd>>

\* one of the pause/resume/stop requests the clients issue
Request ==
    /\ budget # 0
    /\ budget' = IF budget > 0 THEN budget - 1 ELSE budget
    /\ UNCHANGED <<quota, world>>

\* start_extraction with the defect of a missing test of the resolved
\* folder_id: only 'running' is refused
start_extraction_unchecked(resolves) ==
    /\ LockFree
    /\ IF extraction_state.status = "running"
         THEN hpc' = "start_400" /\ UNCHANGED stop_event
         ELSE /\ quota > 0
              /\ stop_event' = FALSE
              /\ hpc' = "start_894"
    /\ UNCHANGED <<extraction_state, pause_event, nstarted, env, hframe, ghost>>
    /\ UNCHANGED aux

\* start_extraction lines 874-893: the lock is taken; 'running' and an
\* unresolvable folder reference are refused, else stop_event.clear()
start_extraction(resolves) ==
    /\ LockFree
    /\ IF extraction_state.status = "running" \/ ~resolves
         THEN hpc' = "start_400" /\ UNCHANGED stop_event
         ELSE /\ quota > 0
              /\ stop_event' = FALSE
              /\ hpc' = "start_894"
    /\ UNCHANGED <<extraction_state, pause_event, nstarted, env, hframe, ghost>>
    /\ UNCHANGED aux

\* start_extraction line 894: pause_event.clear()
start_extraction_894 ==
    /\ hpc = "start_894"
    /\ pause_event' = FALSE
    /\ hpc' = "start_896"
    /\ UNCHANGED <<extraction_state, stop_event, nstarted, env, hframe, ghost>>
    /\ UNCHANGED aux

\* start_extraction lines 896-916: the state is replaced by a fresh idle
\* one, the worker thread is created and started, the lock is released
start_extraction_896(w) ==
    /\ hpc = "start_896"
    /\ extraction_state' = IdleState(Msg("", 0, 0))
    /\ nstarted' = nstarted + 1
    /\ quota' = quota - 1
    /\ UNCHANGED budget
    /\ pc' = [pc EXCEPT ![nstarted + 1] = "r723"]
    /\ max_workers' = [max_workers EXCEPT ![nstarted + 1] = EffectiveWorkers(w)]
    /\ hpc' = "none"
    /\ stopWork' = FALSE
    /\ UNCHANGED <<pause_event, stop_event, uplock, world, cb, counts, exc, written, stopN, late, rd>>
    /\ UNCHANGED aux

\* pause_extraction with the defect of testing the status as stop_extraction
\* does: 'paused' is accepted as well
pause_extraction_as_stop ==
    /\ LockFree
    /\ Request
    /\ IF extraction_state.status \in {"running", "paused"}
         THEN pause_event' = TRUE /\ hpc' = "pause_939"
         ELSE hpc' = "pause_400" /\ UNCHANGED pause_event
    /\ UNCHANGED <<extraction_state, stop_event, nstarted, hframe, ghost>>
    /\ UNCHANGED aux

\* pause_extraction lines 936-938: 'running' is required; pause_event.set()
pause_extraction ==
    /\ LockFree
    /\ Request
    /\ IF extraction_state.status = "running"
         THEN pause_event' = TRUE /\ hpc' = "pause_939"
         ELSE hpc' = "pause_400" /\ UNCHANGED pause_event
    /\ UNCHANGED <<extraction_state, stop_event, nstarted, hframe, ghost>>
    /\ UNCHANGED aux

\* pause_extraction lines 939-941
pause_extraction_939 ==
    /\ hpc = "pause_939"
    /\ extraction_state' = [extraction_state EXCEPT
            !.status = "paused", !.message = Msg("Extraction paused. Click Resume to continue.", 0, 0)]
    /\ hpc' = "none"
    /\ UNCHANGED <<pause_event, stop_event, nstarted, env, hframe, ghost>>
    /\ UNCHANGED aux

\* resume_extraction lines 951-953: 'paused' is required; pause_event.clear()
resume_extraction ==
    /\ LockFree
    /\ Request
    /\ IF extraction_state.status = "paused"
         THEN pause_event' = FALSE /\ hpc' = "resume_954"
         ELSE hpc' = "resume_400" /\ UNCHANGED pause_event
    /\ UNCHANGED <<extraction_state, stop_event, nstarted, hframe, ghost>>
    /\ UNCHANGED aux

\* resume_extraction lines 954-956
resume_extraction_954 ==
    /\ hpc = "resume_954"
    /\ extraction_state' = [extraction_state EXCEPT
            !.status = "running", !.message = Msg("Resuming extraction...", 0, 0)]
    /\ hpc' = "none"
    /\ UNCHANGED <<pause_event, stop_event, nstarted, env, hframe, ghost>>
    /\ UNCHANGED aux

\* stop_extraction lines 966-968: 'running' or 'paused' is required;
\* stop_event.set()
stop_extraction ==
    /\ LockFree
    /\ Request
    /\ IF extraction_state.status \in {"running", "paused"}
         THEN /\ stop_event' = TRUE
              /\ hpc' = "stop_969"
              /\ stopWork' = (stopWork \/ (nstarted > 0 /\ Working(nstarted)))
              /\ late' = Max(late, 0)
              /\ stopN' = IF late < 0 THEN nstarted ELSE stopN
         ELSE /\ hpc' = "stop_400"
              /\ UNCHANGED <<stop_event, ghost>>
    /\ UNCHANGED <<extraction_state, pause_event, nstarted, hframe>>
    /\ UNCHANGED aux

\* stop_extraction line 969: pause_event.clear()
stop_extraction_969 ==
    /\ hpc = "stop_969"
    /\ pause_event' = FALSE
    /\ hpc' = "stop_971"
    /\ UNCHANGED <<extraction_state, stop_event, nstarted, env, hframe, ghost>>
    /\ UNCHANGED aux

\* stop_extraction lines 971-984: the state is replaced by an idle one
stop_extraction_971 ==
    /\ hpc = "stop_971"
    /\ extraction_state' = IdleState(Msg("Extraction stopped by user", 0, 0))
    /\ hpc' = "none"
    /\ UNCHANGED <<pause_event, stop_event, nstarted, env, hframe, ghost>>
    /\ UNCHANGED aux

Refusals == {"start_400", "pause_400", "resume_400", "stop_400"}

\* return_400 with the defect of recording the refusal in the job state
return_400_recorded ==
    /\ hpc \in Refusals
    /\ hpc' = "none"
    /\ extraction_state' = [extraction_state EXCEPT !.message = Msg("No extraction is running", 0, 0)]
    /\ UNCHANGED <<pause_event, stop_event, nstarted, env, hframe, ghost>>
    /\ UNCHANGED aux

\* lines 876, 885, 943, 958, 986: return jsonify({'error': ...}), 400
return_400 ==
    /\ hpc \in Refusals
    /\ hpc' = "none"
    /\ UNCHANGED <<ctl, nstarted, env, hframe, ghost>>
    /\ UNCHANGED aux

\* ------------------------------------------------------------ specification
\* the steps of a worker outside its handler of an exception that is not a stop
WorkerRuns(t) ==
    \/ run_extraction_723(t)
    \/ run_extraction_724(t)
    \/ run_extraction_727(t)
    \/ run_extraction_stop_check(t)
    \/ run_extraction_stopped(t)
    \/ run_extraction_751(t)
    \/ extract_folder_345(t)
    \/ extract_folder_389(t)
    \/ progress_callback_765(t)
    \/ progress_callback_767(t)
    \/ progress_callback_768(t)
    \/ progress_callback_771(t)
    \/ progress_callback_771s(t)
    \/ progress_callback_773(t)
    \/ progress_callback_775(t)
    \/ run_extraction_802(t)
    \/ run_extraction_export(t)
    \/ run_extraction_848(t)

Worker(t) ==
    \/ WorkerRuns(t)
    \/ run_extraction_856(t)
    \/ run_extraction_857(t)

WorkerPool(t) ==
    \/ extract_folder_418(t)
    \/ pool_process_file(t)
    \/ extract_folder_426(t)

Handlers ==
    \/ \E resolves \in BOOLEAN : start_extraction(resolves)
    \/ start_extraction_894
    \/ \E w \in IF world = "plain" THEN {None} ELSE WorkerInputs : start_extraction_896(w)
    \/ pause_extraction
    \/ pause_extraction_939
    \/ resume_extraction
    \/ resume_extraction_954
    \/ stop_extraction
    \/ stop_extraction_969
    \/ stop_extraction_971
    \/ return_400

Next ==
    \/ Handlers
    \/ \E t \in Threads : Worker(t)
    \/ \E t \in Threads : WorkerPool(t)
    \/ \E t \in Threads : update_progress(t)

\* without the parallel mode, which a request with no `workers` never selects
NextRestart ==
    \/ Handlers
    \/ \E t \in Threads : Worker(t)
    \/ \E t \in Threads : update_progress(t)

Spec == Init /\ [][Next]_vars

SpecRestart == InitRestart /\ [][NextRestart]_vars

\* ------------------------------------------------- scheduling of the threads
\* the steps of a request handler that holds the lock
HandlerSteps ==
    \/ start_extraction_894
    \/ \E w \in WorkerInputs : start_extraction_896(w)
    \/ pause_extraction_939
    \/ resume_extraction_954
    \/ stop_extraction_969
    \/ stop_extraction_971
    \/ return_400

\* every thread that can run keeps being scheduled: the worker thread, the
\* threads of its pool, and the thread serving a request once it has the lock
Fairness ==
    /\ \A t \in Threads : WF_vars(Worker(t) \/ WorkerPool(t) \/ update_progress(t))
    /\ WF_vars(HandlerSteps)

FairSpec == Init /\ [][Next]_vars /\ Fairness

\* the job on the folder of ScenarioChildren, where nothing raises but a stop,
\* every thread being scheduled
NextScenario ==
    \/ Handlers
    \/ \E t \in Threads : WorkerRuns(t)
    \/ \E t \in Threads : WorkerPool(t)
    \/ \E t \in Threads : update_progress(t)

\* a thread that keeps asking for extraction_lock is granted it in the end,
\* however many requests are served meanwhile
FairnessScenario ==
    /\ \A t \in Threads : SF_vars(WorkerRuns(t) \/ WorkerPool(t) \/ update_progress(t))
    /\ WF_vars(HandlerSteps)

SpecScenario == InitScenario /\ [][NextScenario]_vars /\ FairnessScenario

\* ------------------------------------------------- get_progress and the reader
\* the four fields update_progress writes
Quad(st) == <<st.current_phase, st.progress, st.total, st.message>>

\* update_progress line 710-711: the lock is taken, current_phase is written
update_progress_711(t) ==
    /\ \/ pc[t] \in {"r744", "r755"} /\ cb[t] = "none"
       \/ cb[t] = "c779"
    /\ LockFree
    /\ uplock' = t
    /\ pre' = Quad(extraction_state)
    /\ extraction_state' = [extraction_state EXCEPT !.current_phase = CbArgs(t)[1]]
    /\ cb' = [cb EXCEPT ![t] = "u712"]
    /\ UNCHANGED <<pc, pause_event, stop_event, hpc, nstarted, env, frame, ghost, reader, snap>>
    /\ UNCHANGED aux

\* update_progress line 712: progress is written
update_progress_712(t) ==
    /\ cb[t] = "u712"
    /\ extraction_state' = [extraction_state EXCEPT !.progress = CbArgs(t)[2]]
    /\ cb' = [cb EXCEPT ![t] = "u713"]
    /\ UNCHANGED <<pc, pause_event, stop_event, hpc, uplock, nstarted, env, frame, ghost, rd>>
    /\ UNCHANGED aux

\* update_progress line 713: total is written
update_progress_713(t) ==
    /\ cb[t] = "u713"
    /\ extraction_state' = [extraction_state EXCEPT !.total = CbArgs(t)[3]]
    /\ cb' = [cb EXCEPT ![t] = "u714"]
    /\ UNCHANGED <<pc, pause_event, stop_event, hpc, uplock, nstarted, env, frame, ghost, rd>>
    /\ UNCHANGED aux

\* update_progress lines 714-716: message is written, the lock is released
update_progress_714(t) ==
    /\ cb[t] = "u714"
    /\ extraction_state' = [extraction_state EXCEPT !.message = CbArgs(t)[4]]
    /\ uplock' = 0
    /\ pre' = None
    /\ Go(t, AfterCb(t))
    /\ UNCHANGED <<pause_event, stop_event, hpc, nstarted, env, frame, ghost, reader, snap>>
    /\ UNCHANGED aux

\* get_progress lines 924-926: elapsed_time is refreshed under the lock
get_progress_924 ==
    /\ reader = "none"
    /\ LockFree
    /\ reader' = "g928"
    /\ UNCHANGED <<ctl, hpc, uplock, nstarted, env, locals, ghost, snap, pre>>
    /\ UNCHANGED aux

\* get_progress line 928: jsonify(extraction_state), after the lock was released
get_progress_928 ==
    /\ reader = "g928"
    /\ snap' = Some(extraction_state)
    /\ reader' = "g929"
    /\ UNCHANGED <<ctl, hpc, uplock, nstarted, env, locals, ghost, pre>>
    /\ UNCHANGED aux

\* get_progress line 928: the response is returned to the client
get_progress_return ==
    /\ reader = "g929"
    /\ snap' = None
    /\ reader' = "none"
    /\ UNCHANGED <<ctl, hpc, uplock, nstarted, env, locals, ghost, pre>>
    /\ UNCHANGED aux

NextRead ==
    \/ Handlers
    \/ \E t \in Threads : Worker(t)
    \/ \E t \in Threads : WorkerPool(t)
    \/ \E t \in Threads : update_progress_711(t)
    \/ \E t \in Threads : update_progress_712(t)
    \/ \E t \in Threads : update_progress_713(t)
    \/ \E t \in Threads : update_progress_714(t)
    \/ get_progress_924
    \/ get_progress_928
    \/ get_progress_return

SpecRead == Init /\ [][NextRead]_vars

\* -------------------------------------- _collect_files_recursively on its own
\* the identifiers of the store: folders (mimeType
\* application/vnd.google-apps.folder) and files of any other type
Containers == {"A", "B"}
Leaves == {"x", "y"}
Ids == Containers \cup Leaves
\* the folder_id extract_folder is called with
Root == "A"
\* orderBy="createdTime": the order in which a page lists its children
Created == <<"A", "B", "x", "y">>

\* a page of a listing: the children it carries; a listing: its pages, every
\* page but the last one carrying a nextPageToken
Pages == {S \in SUBSET Ids : Cardinality(S) <= PageSize}
Listings == UNION {[1..n -> Pages] : n \in 0..MaxPages}
Stores == [Containers -> Listings]

\* results.get('files', []) and results.get('nextPageToken') of the call that
\* asks for page p of the listing of container c
PageFiles(c, p) == IF p <= Len(store[c]) THEN store[c][p] ELSE {}
PageToken(c, p) == p < Len(store[c])

\* lines 281-285: the children of a page that are folders (folders_to_scan)
\* and those that are not (appended to all_files), in the order of the page
FoldersOf(listed) == SelectSeq(Created, LAMBDA id : id \in listed /\ id \in Containers)
FilesOf(listed) == SelectSeq(Created, LAMBDA id : id \in listed /\ id \in Leaves)

\* lines 256-258: the frame of a call for folder_id
NewFrame(folder_id) ==
    [folder_id |-> folder_id, page |-> 1, all_files |-> <<>>,
     folders_to_scan |-> <<>>, at |-> "t268"]

Top == stack[Len(stack)]
\* nothing done yet
Nothing == [callbacks |-> <<>>, listed |-> <<>>]
\* the leaves the frames of the stack q hold between them: those the traversal
\* found so far (a frame that returned has handed its own to its caller)
RECURSIVE Found(_)
Found(q) == IF q = <<>> THEN 0 ELSE Len(q[Len(q)].all_files) + Found(SubSeq(q, 1, Len(q) - 1))
\* lines 287-289: progress_callback('collecting', len(all_files), 0, ...) of
\* the innermost frame of q, after its page was split; with the count it
\* passes is kept the number of leaves found so far
Collecting(q) ==
    [observed EXCEPT !.callbacks =
        Append(@, [count |-> Len(q[Len(q)].all_files), found |-> Found(q)])]
\* the stack with its innermost frame replaced by f
WithTop(f) == [stack EXCEPT ![Len(stack)] = f]
Popped == SubSeq(stack, 1, Len(stack) - 1)

\* extract_folder line 334 and _collect_files_recursively lines 250-258:
\* the call for the root with a fresh visited set
collect_root ==
    /\ traversal = "idle"
    /\ store # <<>>
    /\ traversal' = "running"
    /\ visited_folders' = {Root}
    /\ stack' = <<NewFrame(Root)>>
    /\ observed' = [observed EXCEPT !.listed = Append(@, Root)]
    /\ UNCHANGED <<store, collected, failed, web, schd, call>>

\* lines 268-289: one files().list(...).execute(); it raises HttpError, or
\* returns a page: an empty page ends the loop, any other is split into
\* files and folders to scan
collect_268 ==
    /\ traversal = "running"
    /\ Top.at = "t268"
    /\ \E ok \in BOOLEAN :
         IF ~ok
           THEN /\ failed' = TRUE
                /\ stack' = WithTop([Top EXCEPT !.at = "t303"])
                /\ UNCHANGED observed
           ELSE /\ UNCHANGED failed
                /\ LET listed == PageFiles(Top.folder_id, Top.page)
                   IN  IF listed = {}
                         THEN /\ stack' = WithTop([Top EXCEPT !.at = "t308"])
                              /\ UNCHANGED observed
                         ELSE /\ stack' = WithTop(
                                    [Top EXCEPT !.all_files = @ \o FilesOf(listed),
                                                !.folders_to_scan = FoldersOf(listed),
                                                !.at = "t291"])
                              /\ observed' = Collecting(stack')
    /\ UNCHANGED <<store, visited_folders, traversal, collected, web, schd, call>>

\* collect_291 with the defect of a traversal that keeps no visited set: every
\* folder of folders_to_scan is entered
collect_291_revisit ==
    /\ traversal = "running"
    /\ Top.at = "t291"
    /\ IF Top.folders_to_scan # <<>>
         THEN LET sub == Head(Top.folders_to_scan)
                  rest == [Top EXCEPT !.folders_to_scan = Tail(@)]
              IN  /\ visited_folders' = visited_folders \cup {sub}
                  /\ stack' = Append(WithTop(rest), NewFrame(sub))
                  /\ observed' = [observed EXCEPT !.listed = Append(@, sub)]
         ELSE /\ stack' = WithTop(
                    IF PageToken(Top.folder_id, Top.page)
                      THEN [Top EXCEPT !.page = @ + 1, !.at = "t268"]
                      ELSE [Top EXCEPT !.at = "t308"])
              /\ UNCHANGED <<visited_folders, observed>>
    /\ UNCHANGED <<store, traversal, collected, failed, web, schd, call>>

\* lines 291-301: the next folder of folders_to_scan is entered unless it was
\* visited (line 293; the callee repeats the test at line 253 and marks it
\* visited at 256); after the last one the loop goes on with the next page if
\* the page carried a token
collect_291 ==
    /\ traversal = "running"
    /\ Top.at = "t291"
    /\ IF Top.folders_to_scan # <<>>
         THEN LET sub == Head(Top.folders_to_scan)
                  rest == [Top EXCEPT !.folders_to_scan = Tail(@)]
              IN  IF sub \notin visited_folders
                    THEN /\ visited_folders' = visited_folders \cup {sub}
                         /\ stack' = Append(WithTop(rest), NewFrame(sub))
                         /\ observed' = [observed EXCEPT !.listed = Append(@, sub)]
                    ELSE /\ stack' = WithTop(rest)
                         /\ UNCHANGED <<visited_folders, observed>>
         ELSE /\ stack' = WithTop(
                    IF PageToken(Top.folder_id, Top.page)
                      THEN [Top EXCEPT !.page = @ + 1, !.at = "t268"]
                      ELSE [Top EXCEPT !.at = "t308"])
              /\ UNCHANGED <<visited_folders, observed>>
    /\ UNCHANGED <<store, traversal, collected, failed, web, schd, call>>

\* line 308 (and 297 in the caller): return all_files; the caller extends its
\* own list with it, extract_folder takes it as all_files
collect_308 ==
    /\ traversal = "running"
    /\ Top.at = "t308"
    /\ IF Len(stack) > 1
         THEN /\ stack' = [Popped EXCEPT ![Len(stack) - 1].all_files = @ \o Top.all_files]
              /\ UNCHANGED <<traversal, collected>>
         ELSE /\ stack' = <<>>
              /\ traversal' = "returned"
              /\ collected' = Top.all_files
    /\ UNCHANGED <<store, visited_folders, failed, observed, web, schd, call>>

\* collect_303 with the defect of an except branch that reports the error and
\* does not re-raise it: the function goes on to return what it has
collect_303_swallowed ==
    /\ traversal = "running"
    /\ Top.at = "t303"
    /\ stack' = WithTop([Top EXCEPT !.at = "t308"])
    /\ UNCHANGED <<store, visited_folders, traversal, collected, failed, observed, web, schd, call>>

\* lines 303-306: except HttpError: report, raise.  The exception leaves the
\* frame; in the caller it is raised by the call at line 294, inside the
\* caller's try; out of the outermost frame it reaches extract_folder's
\* except (lines 459-462), which raises it to run_extraction
collect_303 ==
    /\ traversal = "running"
    /\ Top.at = "t303"
    /\ IF Len(stack) > 1
         THEN /\ stack' = [Popped EXCEPT ![Len(stack) - 1].at = "t303"]
              /\ UNCHANGED traversal
         ELSE /\ stack' = <<>>
              /\ traversal' = "raised"
    /\ UNCHANGED <<store, visited_folders, collected, failed, observed, web, schd, call>>

\* any store, with the job controller at rest
InitTraverse ==
    /\ Loaded /\ quota = 0 /\ budget = 0 /\ world = "plain"
    /\ NoSchedule /\ NoCall
    /\ store \in Stores
    /\ stack = <<>>
    /\ visited_folders = {}
    /\ traversal = "idle"
    /\ collected = <<>>
    /\ failed = FALSE
    /\ observed = Nothing

NextTraverse ==
    \/ collect_root
    \/ collect_268
    \/ collect_291
    \/ collect_308
    \/ collect_303

SpecTraverse == InitTraverse /\ [][NextTraverse]_vars

\* extract_folder without a folder_id (lines 335-371): one paginated listing
\* whose query names no parent; what the remote store returns for it is kept
\* under this key of store
WholeStore == "drive"

\* lines 335-342: the else branch is entered with an empty all_files and no
\* page token
extract_all_336 ==
    /\ traversal = "idle"
    /\ DOMAIN store = {WholeStore}
    /\ traversal' = "running"
    /\ stack' = <<NewFrame(WholeStore)>>
    /\ UNCHANGED <<store, visited_folders, collected, failed, observed, web, schd, call>>

\* lines 343-371: one files().list(...).execute(); HttpError is reported and
\* raised (368-371); an empty page ends the loop (354-355); any other page is
\* appended whole to all_files (357) and reported (360-362), and the loop ends
\* unless the page carried a token (364-366)
extract_all_345 ==
    /\ traversal = "running"
    /\ Top.folder_id = WholeStore
    /\ \E ok \in BOOLEAN :
         IF ~ok
           THEN /\ failed' = TRUE
                /\ traversal' = "raised"
                /\ stack' = <<>>
                /\ UNCHANGED <<collected, observed>>
           ELSE LET listed == PageFiles(WholeStore, Top.page)
                    all_files == Top.all_files \o SelectSeq(Created, LAMBDA id : id \in listed)
                IN  /\ UNCHANGED failed
                    /\ IF listed # {} /\ PageToken(WholeStore, Top.page)
                         THEN /\ stack' = WithTop([Top EXCEPT !.all_files = all_files,
                                                              !.page = @ + 1])
                              /\ UNCHANGED <<traversal, collected>>
                         ELSE /\ stack' = <<>>
                              /\ traversal' = "returned"
                              /\ collected' = all_files
                    /\ observed' =
                         IF listed = {} THEN observed
                         ELSE [observed EXCEPT !.callbacks =
                                 Append(@, [count |-> Len(all_files), found |-> Len(all_files)])]
    /\ UNCHANGED <<store, visited_folders, web, schd, call>>

\* any listing of the whole store, with the job controller at rest
InitListAll ==
    /\ Loaded /\ quota = 0 /\ budget = 0 /\ world = "plain"
    /\ NoSchedule /\ NoCall
    /\ store \in [{WholeStore} -> Listings]
    /\ stack = <<>>
    /\ visited_folders = {}
    /\ traversal = "idle"
    /\ collected = <<>>
    /\ failed = FALSE
    /\ observed = Nothing

NextListAll ==
    \/ extract_all_336
    \/ extract_all_345

SpecListAll == InitListAll /\ [][NextListAll]_vars

\* the children container c lists, over all pages ('c' in parents)
Children(c) == UNION {store[c][p] : p \in 1..Len(store[c])}
\* the containers reachable from those of S
RECURSIVE Closure(_)
Closure(S) ==
    LET T == S \cup UNION {Children(c) \cap Containers : c \in S}
    IN  IF T = S THEN S ELSE Closure(T)
\* the leaves that are descendants of the root
ReachableLeaves == UNION {Children(c) \cap Leaves : c \in Closure({Root})}
\* the number of times id occurs in the list q
Occurrences(id, q) == Cardinality({i \in 1..Len(q) : q[i] = id})

\* ----------------------- the extraction scheduler (extract_folder 382-457)
\* The scheduler is run twice on the same all_files, first with max_workers 1,
\* then with max_workers 4, with a progress_callback that returns normally;
\* calls is the list of its calls.  all_metadata and errors are kept up to
\* the order of their elements.

\* extract_file_metadata(file): the record of the file with identifier id
Record(id) == <<"metadata", id>>

\* the two concurrency settings compared, as MetadataExtractor stores them
Sequential == EffectiveWorkers(Some(1))
Parallel == EffectiveWorkers(Some(4))

\* lines 378-384 (and 410-411): the first callback and the locals of a run
\* with max_workers w; before is what the run before returned
Begin(w, before) ==
    [max_workers |-> w, at |-> IF w = 1 THEN "s387" ELSE "s414",
     k |-> 0, queued |-> <<>>, running |-> {}, stuck |-> {},
     all_metadata |-> EmptyBag, errors |-> EmptyBag, processed_count |-> 0,
     calls |-> << <<"processing", 0, Len(items)>> >>,
     before |-> before]

\* Reported with the defect of the count passed as the total too
Reported_own_total(r) ==
    [r EXCEPT !.calls = Append(@, <<"processing", r.processed_count, r.processed_count>>)]

\* lines 396-398 and 438-440:
\* progress_callback('processing', processed_count, len(all_files), ...)
Reported(r) ==
    [r EXCEPT !.calls = Append(@, <<"processing", r.processed_count, Len(items)>>)]

\* Collected with the defect of a count that is raised for a record only: a
\* failed item is recorded in errors and not counted
Collected_uncounted_failure(r, i) ==
    Reported(IF items[i] \notin bad
               THEN [r EXCEPT !.all_metadata = @ (+) SetToBag({Record(items[i])}),
                              !.processed_count = @ + 1]
               ELSE [r EXCEPT !.errors = @ (+) SetToBag({items[i]})])

\* Collected with the defect of a result test without else branch: a failed
\* item is counted and not recorded
Collected_no_else(r, i) ==
    Reported(IF items[i] \notin bad
               THEN [r EXCEPT !.all_metadata = @ (+) SetToBag({Record(items[i])}),
                              !.processed_count = @ + 1]
               ELSE [r EXCEPT !.processed_count = @ + 1])

\* lines 389-398 and 429-440 (with _process_file, 231-234): the result of
\* file i is a record, appended to all_metadata, or None, and then the
\* file's identifier is appended to errors; either way it is counted and
\* the count is reported
Collected(r, i) ==
    Reported(IF items[i] \notin bad
               THEN [r EXCEPT !.all_metadata = @ (+) SetToBag({Record(items[i])}),
                              !.processed_count = @ + 1]
               ELSE [r EXCEPT !.errors = @ (+) SetToBag({items[i]}),
                              !.processed_count = @ + 1])

\* line 411: batch_size
SchedBatch == Min(BatchLimit, Len(items))

\* NextBatch with the defect of a step one larger than the batch
NextBatch_skips(k) == k + SchedBatch + 1

\* line 414: range(0, len(all_files), batch_size), the batch_start after k
NextBatch(k) == k + SchedBatch

\* lines 387-394: the sequential loop takes the next file
sched_389 ==
    /\ sched # <<>>
    /\ sched.at = "s387"
    /\ sched' = IF sched.k < Len(items)
                  THEN [Collected(sched, sched.k + 1) EXCEPT !.k = @ + 1]
                  ELSE [sched EXCEPT !.at = "s457"]
    /\ UNCHANGED <<items, bad, web, trav, call>>

\* lines 414-424: the next batch is cut and every file of it is submitted
\* to the executor; after the last batch the loop ends
sched_414 ==
    /\ sched # <<>>
    /\ sched.at = "s414"
    /\ sched' = IF sched.k < Len(items)
                  THEN [sched EXCEPT
                          !.queued = [j \in 1..(Min(sched.k + SchedBatch, Len(items)) - sched.k)
                                        |-> sched.k + j],
                          !.at = "s426"]
                  ELSE [sched EXCEPT !.at = "s457"]
    /\ UNCHANGED <<items, bad, web, trav, call>>

\* ThreadPoolExecutor(max_workers): a free pool thread takes the oldest
\* submitted file and calls _process_file on it
sched_pool_take ==
    /\ sched # <<>>
    /\ sched.at = "s426"
    /\ sched.queued # <<>>
    /\ Cardinality(sched.running \cup sched.stuck) < sched.max_workers
    /\ sched' = [sched EXCEPT !.running = @ \cup {Head(sched.queued)},
                              !.queued = Tail(@)]
    /\ UNCHANGED <<items, bad, web, trav, call>>

\* lines 426-436: a pool thread finishes a file, as_completed yields its
\* future and the loop collects the result
sched_426 ==
    /\ sched # <<>>
    /\ sched.at = "s426"
    /\ \E i \in sched.running :
         sched' = [Collected(sched, i) EXCEPT !.running = @ \ {i}]
    /\ UNCHANGED <<items, bad, web, trav, call>>

\* a _process_file call of a pool thread blocks and never returns
sched_blocks ==
    /\ sched # <<>>
    /\ sched.at = "s426"
    /\ \E i \in sched.running :
         sched' = [sched EXCEPT !.running = @ \ {i}, !.stuck = @ \cup {i}]
    /\ UNCHANGED <<items, bad, web, trav, call>>

\* sched_449 with the defect of a loop that ends once every file of the
\* batch was taken by a pool thread
sched_449_not_awaited ==
    /\ sched # <<>>
    /\ sched.at = "s426"
    /\ sched.queued = <<>>
    /\ sched' = [sched EXCEPT !.k = NextBatch(sched.k), !.at = "s414"]
    /\ UNCHANGED <<items, bad, web, trav, call>>

\* lines 426 and 449-451: as_completed(future_to_file) has yielded every
\* future of the batch (it takes no timeout: it yields a future when the
\* future is done, and ends when all are), the loop goes to the next batch
sched_449 ==
    /\ sched # <<>>
    /\ sched.at = "s426"
    /\ sched.queued = <<>> /\ sched.running = {} /\ sched.stuck = {}
    /\ sched' = [sched EXCEPT !.k = NextBatch(sched.k), !.at = "s414"]
    /\ UNCHANGED <<items, bad, web, trav, call>>

\* lines 453-457: the last callback and return all_metadata.  The first run
\* is followed by the run with max_workers 4 on the same files.
sched_457 ==
    /\ sched # <<>>
    /\ sched.at = "s457"
    /\ sched' = IF sched.before = <<>>
                  THEN Begin(Parallel, <<sched.all_metadata, sched.errors>>)
                  ELSE [sched EXCEPT
                          !.calls = Append(@, <<"completed", BagCardinality(sched.all_metadata),
                                                Len(items)>>),
                          !.at = "done"]
    /\ UNCHANGED <<items, bad, web, trav, call>>

\* any non-empty list of files with distinct identifiers (an empty list never
\* reaches the scheduler, lines 373-376), at most MaxBad of them failing
InitSched ==
    /\ Loaded /\ quota = 0 /\ budget = 0 /\ world = "plain"
    /\ NoTraversal /\ NoCall
    /\ items \in {[i \in 1..n |-> i] : n \in 1..MaxItems}
    /\ bad \in {B \in SUBSET (1..Len(items)) : Cardinality(B) <= MaxBad}
    /\ sched = Begin(Sequential, <<>>)

NextSched ==
    \/ sched_389
    \/ sched_414
    \/ sched_pool_take
    \/ sched_426
    \/ sched_449
    \/ sched_457

SpecSched == InitSched /\ [][NextSched]_vars

\* the same two runs on files that all extract, where a _process_file call of
\* a pool thread may block for ever; every step that can be taken is taken
InitBlocking == InitSched /\ bad = {}

NextBlocking == NextSched \/ sched_blocks

SpecBlocking == InitBlocking /\ [][NextBlocking]_vars /\ WF_vars(NextSched)

\* ------------------------------- MetadataExtractor.__init__ on its own
\* the max_workers a caller may pass: nothing, or any integer up to MaxAsked
\* in magnitude (main.py passes args.workers, web_app.py the request's
\* `workers`)
WorkerRequests == {None} \cup {Some(n) : n \in (0 - MaxAsked)..MaxAsked}

InitWorkers ==
    /\ Loaded /\ quota = 0 /\ budget = 0 /\ world = "plain"
    /\ NoTraversal /\ NoSchedule
    /\ call \in {[fn |-> "__init__", max_workers |-> w, out |-> None] : w \in WorkerRequests}

\* lines 33-35: the constructor stores self.max_workers
MetadataExtractor_init ==
    /\ call # <<>>
    /\ call.fn = "__init__"
    /\ call.out = None
    /\ call' = [call EXCEPT !.out = Some(EffectiveWorkers(call.max_workers))]
    /\ UNCHANGED <<web, trav, schd>>

NextWorkers == MetadataExtractor_init

SpecWorkers == InitWorkers /\ [][NextWorkers]_vars

\* ------------------- create_forensic_hash_data (exporters.py) on its own
\* A Python str is the sequence of its pieces, each a character or a run of
\* characters that no operation takes apart; a value of a record is tagged
\* with its type.  The records are those extract_file_metadata
\* builds: every value a str or a bool (the int, float and list branches of
\* lines 92-98 are not reached by the forensic fields of such a record).
Str(text) == <<"str", text>>
Bool(b) == <<"bool", IF b THEN <<"True">> ELSE <<>>>>
Text(v) == v[2]

\* forensic_fields with the defect of one more field
forensic_fields_starred ==
    <<"id", "name", "mime_type", "file_type", "creation_date_raw",
      "modification_date_raw", "size_bytes", "md5_checksum", "description", "trashed",
      "starred">>

\* lines 67-78: forensic_fields
forensic_fields ==
    <<"id", "name", "mime_type", "file_type", "creation_date_raw",
      "modification_date_raw", "size_bytes", "md5_checksum", "description", "trashed">>

\* the other keys of a record (extractor.py 172-200)
other_fields ==
    {"creation_date", "modification_date", "last_viewed_date", "size_formatted",
     "owner_email", "owner_name", "last_modifier_email", "last_modifier_name",
     "sharing_user_email", "full_path", "share_link", "shared", "starred",
     "version", "permissions", "permission_count", "parents"}

\* the code points of the characters used
Ord(c) == CASE c = " " -> 32 [] c = "1" -> 49 [] c = "2" -> 50
            [] c = "a" -> 97 [] c = "b" -> 98 [] c = "e" -> 101 [] c = "f" -> 102
            [] c = "l" -> 108 [] c = "r" -> 114 [] c = "s" -> 115 [] c = "t" -> 116
            [] c = "u" -> 117 [] OTHER -> 0

\* a < b for two str, as Python compares them
RECURSIVE StrLess(_, _)
StrLess(a, b) ==
    IF b = <<>> THEN FALSE
    ELSE IF a = <<>> THEN TRUE
    ELSE IF Ord(Head(a)) # Ord(Head(b)) THEN Ord(Head(a)) < Ord(Head(b))
    ELSE StrLess(Tail(a), Tail(b))

\* str.strip()
RECURSIVE lstrip(_)
lstrip(text) == IF text # <<>> /\ Head(text) = " " THEN lstrip(Tail(text)) ELSE text
RECURSIVE rstrip(_)
rstrip(text) ==
    IF text # <<>> /\ text[Len(text)] = " " THEN rstrip(SubSeq(text, 1, Len(text) - 1)) ELSE text
strip(text) == rstrip(lstrip(text))

\* lines 88-102: the str a value is turned into
Normalised(value) ==
    CASE value[1] = "none" -> <<>>
      [] value[1] = "bool" -> IF Text(value) # <<>> THEN <<"t", "r", "u", "e">>
                                                   ELSE <<"f", "a", "l", "s", "e">>
      [] value[1] = "str" -> strip(Text(value))

\* dict.get(key, default)
Get(d, key, default) == IF key \in DOMAIN d THEN d[key] ELSE default

\* line 80: sorted(metadata, key=lambda x: x.get('id', '')), a stable sort:
\* each record goes behind the records whose id is not greater than its own
RECURSIVE sorted_by_id(_)
sorted_by_id(metadata) ==
    IF metadata = <<>> THEN <<>>
    ELSE LET init == sorted_by_id(SubSeq(metadata, 1, Len(metadata) - 1))
             x == metadata[Len(metadata)]
             key(r) == Text(Get(r, "id", Str(<<>>)))
             n == Cardinality({i \in 1..Len(init) : ~StrLess(key(x), key(init[i]))})
         IN  SubSeq(init, 1, n) \o <<x>> \o SubSeq(init, n + 1, Len(init))

\* lines 80-109: the forensic fields of every record, in the sorted order
create_forensic_hash_data(metadata) ==
    LET sorted_metadata == sorted_by_id(metadata)
        fields == {forensic_fields[j] : j \in 1..Len(forensic_fields)}
    IN  [i \in 1..Len(metadata) |->
            [field \in fields |-> Normalised(Get(sorted_metadata[i], field, Str(<<>>)))]]

\* the keys of a record in the order of their names, in which
\* json.dump(sort_keys=True) writes those it finds
SortedKeys ==
    <<"creation_date", "creation_date_raw", "description", "file_type", "full_path", "id",
      "last_modifier_email", "last_modifier_name", "last_viewed_date", "md5_checksum",
      "mime_type", "modification_date", "modification_date_raw", "name", "owner_email",
      "owner_name", "parents", "permission_count", "permissions", "share_link", "shared",
      "sharing_user_email", "size_bytes", "size_formatted", "starred", "trashed", "version">>

\* exporters.py 161: json.dump(..., separators=(',', ':'), sort_keys=True),
\* the list of the files, each the list of its keys and values in key order
Dumped(data) ==
    [i \in 1..Len(data) |->
        SelectSeq([j \in 1..Len(SortedKeys) |->
                      IF SortedKeys[j] \in DOMAIN data[i]
                        THEN <<SortedKeys[j], data[i][SortedKeys[j]]>> ELSE <<>>],
                  LAMBDA kv : kv # <<>>)]

\* the record extract_file_metadata builds for a file with this id, name and
\* trashed flag; every other str field is "a", every other flag False
FileRecord(id, name, trashed) ==
    [key \in {forensic_fields[j] : j \in 1..Len(forensic_fields)} \cup other_fields |->
        CASE key = "id" -> Str(id)
          [] key = "name" -> Str(name)
          [] key = "trashed" -> Bool(trashed)
          [] key \in {"shared", "starred"} -> Bool(FALSE)
          [] OTHER -> Str(<<"a">>)]

FileRecords ==
    {FileRecord(id, name, trashed) :
        id \in {<<"1">>, <<"2">>}, name \in {<<"a">>, <<"a", " ">>}, trashed \in BOOLEAN}

RecordLists == UNION {[1..n -> FileRecords] : n \in 0..MaxRecords}

\* the values a field of a record can change to
ValuesOf(key) ==
    IF key \in {"trashed", "shared", "starred"} THEN {Bool(TRUE), Bool(FALSE)}
    ELSE {Str(<<"a">>), Str(<<"a", " ">>), Str(<<"b">>)}

\* a second snapshot of the same files: how it differs from the first, and
\* the list
Permuted(metadata) ==
    {<<"permuted", [i \in 1..Len(metadata) |-> metadata[p[i]]]>> :
        p \in {q \in [1..Len(metadata) -> 1..Len(metadata)] :
                  \A i, j \in 1..Len(metadata) : q[i] = q[j] => i = j}}

Changed(kind, keys, metadata) ==
    {<<kind, [metadata EXCEPT ![c[1]] = [@ EXCEPT ![c[2]] = c[3]]]>> :
        c \in {d \in (1..Len(metadata)) \X keys \X (ValuesOf("name") \cup ValuesOf("trashed")) :
                  d[3] \in ValuesOf(d[2]) /\ d[3] # metadata[d[1]][d[2]]}}

\* the fields the fingerprint is to follow
FollowedFields ==
    {"name", "description", "trashed", "mime_type", "md5_checksum", "size_bytes",
     "creation_date_raw", "modification_date_raw"}

Grown(metadata) == {<<"added", Append(metadata, r)>> : r \in FileRecords}

Shrunk(metadata) ==
    {<<"removed", SubSeq(metadata, 1, i - 1) \o SubSeq(metadata, i + 1, Len(metadata))>> :
        i \in 1..Len(metadata)}

Snapshots(metadata) ==
    Permuted(metadata) \cup Changed("other_field", other_fields, metadata)
        \cup Changed("followed_field", FollowedFields, metadata)
        \cup Grown(metadata) \cup Shrunk(metadata)

InitHash ==
    /\ Loaded /\ quota = 0 /\ budget = 0 /\ world = "plain"
    /\ NoTraversal /\ NoSchedule
    /\ call \in UNION {{[fn |-> "create_forensic_hash_data", metadata |-> m, kind |-> v[1],
                          second |-> v[2], out |-> None, out_second |-> None] :
                             v \in Snapshots(m)} : m \in RecordLists}

\* exporters.py 158-161: the forensic data of a snapshot is built and dumped
export_158 ==
    /\ call # <<>>
    /\ call.fn = "create_forensic_hash_data"
    /\ \/ /\ call.out = None
          /\ call' = [call EXCEPT !.out = Some(Dumped(create_forensic_hash_data(call.metadata)))]
       \/ /\ call.out_second = None
          /\ call' = [call EXCEPT
                        !.out_second = Some(Dumped(create_forensic_hash_data(call.second)))]
    /\ UNCHANGED <<web, trav, schd>>

NextHash == export_158

SpecHash == InitHash /\ [][NextHash]_vars

\* ------------------------------ the exporters and the list they are given
\* The caller's list is a list of references to dicts: metadata holds the
\* references in the order of the list, objects the dict behind each.  A
\* sorted(...) copy shares the dicts with the list it was made from.
Exporters == {"CSVExporter.export", "JSONExporter.export", "PDFExporter.export"}

\* the dicts of the list refs, in its order
Deref(refs, objs) == [i \in 1..Len(refs) |-> objs[refs[i]]]

\* sorted(metadata, key=lambda x: x.get('id', '')) on references (lines 80
\* and 148): a new list, stable
RECURSIVE sorted_refs(_, _)
sorted_refs(refs, objs) ==
    IF refs = <<>> THEN <<>>
    ELSE LET init == sorted_refs(SubSeq(refs, 1, Len(refs) - 1), objs)
             x == refs[Len(refs)]
             key(r) == Text(Get(objs[r], "id", Str(<<>>)))
             n == Cardinality({i \in 1..Len(init) : ~StrLess(key(x), key(init[i]))})
         IN  SubSeq(init, 1, n) \o <<x>> \o SubSeq(init, n + 1, Len(init))

\* lines 136-146: the columns of the CSV file
columns ==
    {"name", "id", "file_type", "full_path", "creation_date", "modification_date",
     "last_viewed_date", "creation_date_raw", "modification_date_raw", "size_bytes",
     "size_formatted", "owner_email", "owner_name", "last_modifier_email",
     "last_modifier_name", "shared", "trashed", "share_link", "md5_checksum", "version",
     "permissions", "permission_count", "mime_type", "description", "parents"}

\* CSVExporter.export lines 132-156: nothing is written for an empty list;
\* else the rows are written from a sorted copy, each row a new dict of the
\* columns, and create_forensic_hash_data is called (158)
csv_export_132 ==
    /\ call # <<>>
    /\ call.fn = "CSVExporter.export"
    /\ call.at = "start"
    /\ IF call.metadata = <<>>
         THEN call' = [call EXCEPT !.at = "done"]
         ELSE LET sorted_metadata == sorted_refs(call.metadata, call.objects)
              IN  call' = [call EXCEPT
                     !.written = Some([i \in 1..Len(sorted_metadata) |->
                                          [k \in columns |->
                                              Get(call.objects[sorted_metadata[i]], k, Str(<<>>))]]),
                     !.at = "h80"]
    /\ UNCHANGED <<web, trav, schd>>

\* JSONExporter.export line 193 and PDFExporter.export line 295 begin with
\* the call of create_forensic_hash_data
export_193 ==
    /\ call # <<>>
    /\ call.fn \in {"JSONExporter.export", "PDFExporter.export"}
    /\ call.at = "start"
    /\ call' = [call EXCEPT !.at = "h80"]
    /\ UNCHANGED <<web, trav, schd>>

\* hash_80 with the defect of metadata.sort(key=...): the caller's list is
\* put in order itself
hash_80_in_place ==
    /\ call # <<>>
    /\ "at" \in DOMAIN call
    /\ call.at = "h80"
    /\ call' = [call EXCEPT !.metadata = sorted_refs(call.metadata, call.objects),
                            !.sorted_metadata = sorted_refs(call.metadata, call.objects),
                            !.at = "h83"]
    /\ UNCHANGED <<web, trav, schd>>

\* create_forensic_hash_data line 80: sorted_metadata is a new list of the
\* same dicts
hash_80 ==
    /\ call # <<>>
    /\ "at" \in DOMAIN call
    /\ call.at = "h80"
    /\ call' = [call EXCEPT !.sorted_metadata = sorted_refs(call.metadata, call.objects),
                            !.at = "h83"]
    /\ UNCHANGED <<web, trav, schd>>

\* lines 83-107: one turn of the loop: file_data is the next dict of
\* sorted_metadata; its forensic fields are read (86), the normalised values
\* are bound to the local `value` and stored in the new dict forensic_file
\* (104), which is appended to forensic_files; file_data is not written
hash_83 ==
    /\ call # <<>>
    /\ "at" \in DOMAIN call
    /\ call.at = "h83"
    /\ Len(call.forensic_files) < Len(call.sorted_metadata)
    /\ LET file_data == call.objects[call.sorted_metadata[Len(call.forensic_files) + 1]]
           forensic_file ==
               [field \in {forensic_fields[j] : j \in 1..Len(forensic_fields)} |->
                   Normalised(Get(file_data, field, Str(<<>>)))]
       IN  call' = [call EXCEPT !.forensic_files = Append(@, forensic_file)]
    /\ UNCHANGED <<web, trav, schd>>

\* line 109: return {'files': forensic_files}; the exporter dumps it for the
\* hash (161, 197, 298) and goes on
hash_109 ==
    /\ call # <<>>
    /\ "at" \in DOMAIN call
    /\ call.at = "h83"
    /\ Len(call.forensic_files) = Len(call.sorted_metadata)
    /\ call' = [call EXCEPT
                  !.out = Some(Dumped(call.forensic_files)),
                  !.at = CASE call.fn = "JSONExporter.export" -> "j203"
                           [] call.fn = "PDFExporter.export" -> "p344"
                           [] OTHER -> "done"]
    /\ UNCHANGED <<web, trav, schd>>

\* JSONExporter.export lines 203-215: export_data['files'] is the caller's
\* list itself, dumped in its order with all the keys of its dicts
json_export_203 ==
    /\ call # <<>>
    /\ "at" \in DOMAIN call
    /\ call.at = "j203"
    /\ call' = [call EXCEPT !.written = Some(Deref(call.metadata, call.objects)),
                            !.at = "done"]
    /\ UNCHANGED <<web, trav, schd>>

\* PDFExporter.export lines 324-427: the report reads the list (its length,
\* and the fields of every dict through get) and writes none of it
pdf_export_344 ==
    /\ call # <<>>
    /\ "at" \in DOMAIN call
    /\ call.at = "p344"
    /\ call' = [call EXCEPT
                  !.written = Some(<<Len(call.metadata),
                                     Cardinality({i \in 1..Len(call.metadata) :
                                        Text(Get(call.objects[call.metadata[i]], "shared",
                                                 Bool(FALSE))) # <<>>})>>),
                  !.at = "done"]
    /\ UNCHANGED <<web, trav, schd>>

\* a call of create_forensic_hash_data or of one exporter on any list; before
\* keeps the dicts of the list as they are when the call is made
InitExport ==
    /\ Loaded /\ quota = 0 /\ budget = 0 /\ world = "plain"
    /\ NoTraversal /\ NoSchedule
    /\ call \in {[fn |-> f, metadata |-> [i \in 1..Len(m) |-> i], objects |-> m,
                   before |-> m, sorted_metadata |-> <<>>, forensic_files |-> <<>>,
                   written |-> None, out |-> None,
                   at |-> IF f \in Exporters THEN "start" ELSE "h80"] :
                      f \in Exporters \cup {"create_forensic_hash_data"}, m \in RecordLists}

NextExport ==
    \/ csv_export_132
    \/ export_193
    \/ hash_80
    \/ hash_83
    \/ hash_109
    \/ json_export_203
    \/ pdf_export_344

SpecExport == InitExport /\ [][NextExport]_vars

\* ---------------- MetadataExtractor.extract_file_metadata on its own
\* the keys of a file as the store returns it (self.fields, lines 25-30)
RawKeys ==
    {"id", "name", "mimeType", "createdTime", "modifiedTime", "viewedByMeTime", "size",
     "owners", "webViewLink", "sharingUser", "permissions", "parents", "md5Checksum",
     "version", "shared", "trashed", "starred", "description", "lastModifyingUser"}

NoneValue == <<"none", <<>>>>
List(elements) == <<"list", elements>>
Dict(d) == <<"dict", d>>
Number(n) == <<"int", n>>
\* an exception leaves the function
Raised == <<"raised">>

\* the value the store gives a key of a file that has it
RawValue(key) ==
    CASE key \in {"shared", "trashed", "starred"} -> Bool(TRUE)
      [] key = "mimeType" -> Str(<<"image", "/", "gif">>)
      [] key \in {"createdTime", "modifiedTime", "viewedByMeTime"}
            -> Str(<<"2024-01-02T03:04:05.000Z">>)
      [] key = "size" -> Str(<<"5">>)
      [] key = "owners"
            -> List(<<[emailAddress |-> Str(<<"o@x">>), displayName |-> Str(<<"o">>)]>>)
      [] key \in {"lastModifyingUser", "sharingUser"}
            -> Dict([emailAddress |-> Str(<<"m@x">>), displayName |-> Str(<<"m">>)])
      [] key = "permissions"
            -> List(<<[type |-> Str(<<"user">>), role |-> Str(<<"owner">>)]>>)
      [] key = "parents" -> List(<<Str(<<"p">>)>>)
      [] OTHER -> Str(<<key>>)

\* a file that has exactly the keys of present
RawFile(present) == [key \in present |-> RawValue(key)]

\* lines 47-53: format_datetime
format_datetime(dt_string) ==
    IF dt_string = NoneValue \/ Text(dt_string) = <<>> THEN NoneValue
    ELSE IF dt_string = Str(<<"2024-01-02T03:04:05.000Z">>)
           THEN Str(<<"2024-01-02", " ", "03:04:05", " ", "UTC">>)
    ELSE dt_string

\* lines 65-75: format_size
format_size(size_bytes) ==
    IF size_bytes = NoneValue \/ Text(size_bytes) = <<>> THEN Str(<<"N", "/", "A">>)
    ELSE IF size_bytes = Str(<<"5">>) THEN Str(<<"5.00", " ", "B">>)
    ELSE size_bytes

\* str.upper() of a piece
upper(piece) == CASE piece = "gif" -> "GIF" [] piece = "pdf" -> "PDF" [] OTHER -> piece

\* str.split('/')[-1]: the pieces behind the last "/"
RECURSIVE last_segment(_)
last_segment(text) ==
    IF \E i \in 1..Len(text) : text[i] = "/"
      THEN last_segment(Tail(text))
      ELSE text

\* lines 204-218: _get_file_type; None has no split()
_get_file_type(mime_type) ==
    IF mime_type = NoneValue THEN Raised
    ELSE IF mime_type = Str(<<"application", "/", "pdf">>) THEN Str(<<"PDF">>)
    ELSE IF mime_type = Str(<<"text", "/", "plain">>) THEN Str(<<"Text">>)
    ELSE LET segment == last_segment(Text(mime_type))
         IN  Str([i \in 1..Len(segment) |-> upper(segment[i])])

\* str.join(texts)
RECURSIVE join(_, _)
join(separator, texts) ==
    IF texts = <<>> THEN <<>>
    ELSE IF Len(texts) = 1 THEN Text(texts[1])
    ELSE Text(texts[1]) \o separator \o join(separator, Tail(texts))

\* the sentinel 'N/A'
NA == Str(<<"N", "/", "A">>)

\* mime_type_of with the defect of a get without default
mime_type_of_no_default(file) == Get(file, "mimeType", NoneValue)

\* line 176: file.get('mimeType', ''), the argument of _get_file_type
mime_type_of(file) == Get(file, "mimeType", Str(<<>>))

\* lines 152-202: extract_file_metadata
extract_file_metadata(file) ==
    LET owners == Get(file, "owners", List(<<>>))[2]
        last_modifying_user == Get(file, "lastModifyingUser", Dict(<<>>))[2]
        sharing_user == Get(file, "sharingUser", Dict(<<>>))[2]
        permissions == Get(file, "permissions", List(<<>>))[2]
        permission_types ==
            [i \in 1..Len(permissions) |->
                Str(Text(Get(permissions[i], "type", Str(<<"unknown">>))) \o <<":">>
                      \o Text(Get(permissions[i], "role", Str(<<"unknown">>))))]
        metadata ==
            [id |-> Get(file, "id", NA),
             name |-> Get(file, "name", NA),
             mime_type |-> Get(file, "mimeType", NA),
             file_type |-> _get_file_type(mime_type_of(file)),
             creation_date |-> format_datetime(Get(file, "createdTime", NoneValue)),
             modification_date |-> format_datetime(Get(file, "modifiedTime", NoneValue)),
             last_viewed_date |-> format_datetime(Get(file, "viewedByMeTime", NoneValue)),
             creation_date_raw |-> Get(file, "createdTime", NA),
             modification_date_raw |-> Get(file, "modifiedTime", NA),
             size_bytes |-> Get(file, "size", Str(<<"0">>)),
             size_formatted |-> format_size(Get(file, "size", NoneValue)),
             owner_email |-> IF owners # <<>> THEN Get(owners[1], "emailAddress", NA) ELSE NA,
             owner_name |-> IF owners # <<>> THEN Get(owners[1], "displayName", NA) ELSE NA,
             last_modifier_email |-> Get(last_modifying_user, "emailAddress", NA),
             last_modifier_name |-> Get(last_modifying_user, "displayName", NA),
             sharing_user_email |-> Get(sharing_user, "emailAddress", NA),
             full_path |-> Get(file, "name", Str(<<"Unknown">>)),
             share_link |-> Get(file, "webViewLink", NA),
             shared |-> Get(file, "shared", Bool(FALSE)),
             trashed |-> Get(file, "trashed", Bool(FALSE)),
             starred |-> Get(file, "starred", Bool(FALSE)),
             description |-> Get(file, "description", Str(<<>>)),
             md5_checksum |-> Get(file, "md5Checksum", NA),
             version |-> Get(file, "version", NA),
             permissions |-> IF permission_types # <<>>
                               THEN Str(join(<<";", " ">>, permission_types)) ELSE NA,
             permission_count |-> Number(Len(permissions)),
             parents |-> Str(join(<<";", " ">>, Get(file, "parents", List(<<>>))[2]))]
    IN  IF \E key \in DOMAIN metadata : metadata[key] = Raised
          THEN Raised ELSE <<"returned", metadata>>

\* a file with any of its keys missing
InitNormalize ==
    /\ Loaded /\ quota = 0 /\ budget = 0 /\ world = "plain"
    /\ NoTraversal /\ NoSchedule
    /\ call \in {[fn |-> "extract_file_metadata", file |-> RawFile(present), out |-> None] :
                    present \in SUBSET RawKeys}

\* the call of extract_file_metadata (from _process_file, line 232)
process_file_232 ==
    /\ call # <<>>
    /\ call.fn = "extract_file_metadata"
    /\ call.out = None
    /\ call' = [call EXCEPT !.out = Some(extract_file_metadata(call.file))]
    /\ UNCHANGED <<web, trav, schd>>

NextNormalize == process_file_232

SpecNormalize == InitNormalize /\ [][NextNormalize]_vars

\* ------------------------- start_extraction and the folder reference
\* The folder reference of a request is a str, as above the sequence of its
\* pieces, or absent.  The pieces used, by what the tests of
\* extract_folder_id_from_url see in them:
Host == "https://drive.google.com"
\* url_or_id.startswith('http')
StartsWithHttp(text) == text # <<>> /\ Head(text) = Host
\* '/' in url_or_id, '?' in url_or_id
Contains(c, text) ==
    \E i \in 1..Len(text) :
        text[i] \in (IF c = "/" THEN {Host, "/drive/folders/", "/open", "/view"}
                                ELSE {"?id=", "?usp=sharing"})
\* a run of [a-zA-Z0-9_-]
IdRun(piece) == piece \in {"1AbC_-"}

\* re.search of a pattern that is one of the literals of pats followed by
\* the group ([a-zA-Z0-9_-]+): the group of the leftmost match, or None
Search(pats, text) ==
    LET at(i) == {q \in pats : /\ i + Len(q) <= Len(text)
                                /\ SubSeq(text, i, i + Len(q) - 1) = q
                                /\ IdRun(text[i + Len(q)])}
        hits == {i \in 1..Len(text) : at(i) # {}}
    IN  IF hits = {} THEN NoneValue
        ELSE LET i == CHOOSE j \in hits : \A k \in hits : j <= k
                 q == CHOOSE r \in at(i) : TRUE
             IN  Str(<<text[i + Len(q)]>>)

\* helpers.py lines 31-54
extract_folder_id_from_url(url_or_id) ==
    LET text == strip(Text(url_or_id))
    IN  IF Text(url_or_id) = <<>> \/ text = <<>> THEN NoneValue
        ELSE IF ~StartsWithHttp(text) /\ ~Contains("/", text) /\ ~Contains("?", text)
          THEN Str(text)
        ELSE IF Search({<<"/drive/folders/">>}, text) # NoneValue
          THEN Search({<<"/drive/folders/">>}, text)
        ELSE IF Search({<<"/open", "?id=">>}, text) # NoneValue
          THEN Search({<<"/open", "?id=">>}, text)
        ELSE Search({<<"?id=">>, <<"&id=">>}, text)

\* web_app.py lines 879-885: folder_id stays None for an absent or blank
\* reference; any other reference is resolved, and a result that is None (or
\* empty) is refused
Refused(folder_id_input) ==
    /\ folder_id_input # NoneValue
    /\ strip(Text(folder_id_input)) # <<>>
    /\ LET folder_id == extract_folder_id_from_url(Str(strip(Text(folder_id_input))))
       IN  folder_id = NoneValue \/ Text(folder_id) = <<>>

\* the folder references the requests carry: none, an empty and a blank one,
\* an identifier, the link formats of the docstring, and references that
\* hold no identifier
FolderInputs ==
    {NoneValue, Str(<<>>), Str(<<" ">>),
     Str(<<"1AbC_-">>), Str(<<" ", "1AbC_-", " ">>),
     Str(<<Host, "/drive/folders/", "1AbC_-">>),
     Str(<<Host, "/drive/folders/", "1AbC_-", "/view", "?usp=sharing">>),
     Str(<<Host, "/open", "?id=", "1AbC_-">>),
     Str(<<Host, "/view", "?usp=sharing", "&id=", "1AbC_-">>),
     Str(<<Host, "/drive/folders/">>),
     Str(<<Host, "/view", "?usp=sharing">>),
     Str(<<"/drive/folders/", " ", "1AbC_-">>)}

\* one job; every start request of a behaviour carries the same folder
\* reference, held in call
InitStart ==
    /\ Loaded /\ quota = OneJob /\ budget = MaxRequests /\ world = "full"
    /\ NoTraversal /\ NoSchedule
    /\ call \in {[fn |-> "start_extraction", folder_id_input |-> f] : f \in FolderInputs}

NextStart ==
    \/ start_extraction(~Refused(call.folder_id_input))
    \/ start_extraction_894
    \/ \E w \in WorkerInputs : start_extraction_896(w)
    \/ pause_extraction
    \/ pause_extraction_939
    \/ resume_extraction
    \/ resume_extraction_954
    \/ stop_extraction
    \/ stop_extraction_969
    \/ stop_extraction_971
    \/ return_400
    \/ \E t \in Threads : Worker(t)
    \/ \E t \in Threads : WorkerPool(t)
    \/ \E t \in Threads : update_progress(t)

SpecStart == InitStart /\ [][NextStart]_vars

\* ------------------------------------------------------------------ claims
status == extraction_state.status
AllDone == \A t \in Threads : pc[t] \in {"unborn", "done"}
\* worker t returns in this step
Returns(t) == pc[t] # "done" /\ pc'[t] = "done"

\* C1: a stop request accepted while the job is collecting or processing, with
\* no start after it, leaves the job 'stopped' with no records and no output
\* path.  Stated for the end of the job: once the worker has returned, the
\* status is 'stopped' and metadata and output_path are None.
C1_StoppedJobEndsStopped ==
    (late >= 0 /\ stopWork /\ stopN = nstarted /\ AllDone /\ hpc = "none")
        => /\ status = "stopped"
           /\ extraction_state.metadata = None
           /\ extraction_state.output_path = None

\* C2: once a stop request has been accepted, the workers of that moment
\* begin at most one more unit of work (one page fetch, or the items of the
\* batch in flight): never a second one.
C2_StopHonoredAtNextCheckpoint == late <= 1

\* C3: a job that has written any export ends in 'completed': when the worker
\* of a job that wrote an export returns, the status it leaves is 'completed'.
C3_ExportOnlyIfCompleted ==
    [][\A t \in Threads :
          (Returns(t) /\ written[t] > 0) => extraction_state'.status = "completed"]_vars

\* C4 (as stated): a pause request is accepted only while the job is in the
\* processing phase.
C4_PauseOnlyWhileProcessing ==
    hpc = "pause_939" => extraction_state.current_phase = "processing"

\* C4 (amended): a pause request is accepted exactly when the status is
\* 'running', whatever the phase (authenticating, initializing, collecting,
\* processing, exporting); with any other status it is refused.
C4_PauseOnlyWhileRunning ==
    /\ hpc = "pause_939" => status = "running"
    /\ hpc = "pause_400" => status # "running"

\* a pause request has just been accepted while the job collects the listing
C4_PauseAcceptedWhileCollecting ==
    hpc = "pause_939" /\ extraction_state.current_phase = "collecting"

\* C5: while the status is 'paused' and no resume or stop has been accepted
\* since, no item extraction starts, no batch is submitted, no export is
\* written and progress, total and phase keep their values.
C5_NoWorkWhilePaused ==
    [][(status = "paused" /\ hpc = "none")
          => /\ extraction_state'.progress = extraction_state.progress
             /\ extraction_state'.total = extraction_state.total
             /\ extraction_state'.current_phase = extraction_state.current_phase
             /\ \A t \in Threads :
                   /\ processed'[t] <= processed[t]
                   /\ inflight'[t] + fin'[t] <= inflight[t] + fin[t]
                   /\ written'[t] <= written[t]]_vars

\* the first step of a pause / resume / stop request, which takes the lock
PauseRequest == hpc = "none" /\ hpc' \in {"pause_939", "pause_400"}
ResumeRequest == hpc = "none" /\ hpc' \in {"resume_954", "resume_400"}
StopRequest == hpc = "none" /\ hpc' \in {"stop_969", "stop_400"}

\* worker t waits in the pause loop of progress_callback (line 771)
Blocked(t) == cb[t] \in {"c771", "c771s"}

\* C6 (as stated): a resume request is accepted only while the status is
\* 'paused', its handler leaves the status 'running', and once it is accepted
\* a worker waiting in the pause loop eventually leaves the loop.
C6_ResumeReleasesWorker ==
    /\ [](hpc = "resume_954" => status = "paused")
    /\ [][(hpc = "resume_954" /\ hpc' = "none") => extraction_state'.status = "running"]_vars
    /\ \A t \in Threads : (hpc = "resume_954" /\ Blocked(t)) ~> ~Blocked(t)

\* C6 (amended): a resume request is accepted only while the status is
\* 'paused', its handler leaves the status 'running', and once it is accepted
\* a worker waiting in the pause loop eventually leaves the loop, unless a
\* new pause request is accepted before the worker has seen the pause flag
\* clear.
C6_ResumeReleasesUnlessPausedAgain ==
    /\ [](hpc = "resume_954" => status = "paused")
    /\ [][(hpc = "resume_954" /\ hpc' = "none") => extraction_state'.status = "running"]_vars
    /\ \A t \in Threads :
          (hpc = "resume_954" /\ Blocked(t)) ~> (~Blocked(t) \/ hpc = "pause_939")

\* a worker has left the pause loop after a resume: it is about to set the
\* status back to 'running' and finds that the resume handler already did
C6_WorkerReleasedByResume ==
    \E t \in Threads :
        cb[t] = "c775" /\ status = "running" /\ ~pause_event /\ ~stop_event

\* C7: a pause, resume or stop request issued with a status that does not
\* permit it takes the refusing branch, and neither that step nor the return
\* of the error changes the job state, the pause flag or the stop flag.
C7_RefusedRequestChangesNothing ==
    [][/\ (PauseRequest /\ status # "running")
            => (hpc' = "pause_400" /\ UNCHANGED ctl)
       /\ (ResumeRequest /\ status # "paused")
            => (hpc' = "resume_400" /\ UNCHANGED ctl)
       /\ (StopRequest /\ status \notin {"running", "paused"})
            => (hpc' = "stop_400" /\ UNCHANGED ctl)
       /\ (hpc \in {"pause_400", "resume_400", "stop_400"} /\ hpc' = "none")
            => UNCHANGED ctl]_vars

\* a resume request was refused while the job runs
C7_ResumeRefusedWhileRunning ==
    hpc = "resume_400" /\ status = "running" /\ \E t \in Threads : Working(t)

\* C8: the step that sets the status 'completed' is taken by a worker whose
\* traversal has finished, which has extracted every collected file and
\* written the three exports; an export is written only once every collected
\* file is extracted, and a file is extracted only once the listing is over.
C8_CompletedAfterAll ==
    [][/\ (status # "completed" /\ extraction_state'.status = "completed")
            => \E t \in Threads :
                  /\ pc[t] = "r848"
                  /\ written[t] = 3
                  /\ files[t] > 0 /\ processed[t] = files[t]
                  /\ inflight[t] + fin[t] = 0
                  /\ ~more[t]
       /\ \A t \in Threads :
             /\ written'[t] > written[t]
                  => /\ written'[t] = written[t] + 1
                     /\ processed[t] = files[t] /\ inflight[t] + fin[t] = 0
             /\ (processed'[t] > processed[t] \/ inflight'[t] > inflight[t])
                  => (~more[t] /\ files[t] > 0)]_vars

\* a job has completed with two files collected, one of them extracted
C8_CompletedJob ==
    /\ status = "completed"
    /\ extraction_state.metadata = Some(1)
    /\ extraction_state.total = 1
    /\ pc[1] = "done"

\* C9: in every reachable state the records and the output path are populated
\* only if the status is 'completed'.
C9_RecordsOnlyIfCompleted ==
    (extraction_state.metadata # None \/ extraction_state.output_path # None)
        => status = "completed"

\* C10: the progress, total, phase and message of a snapshot that get_progress
\* serialises were written by one update: a snapshot taken while an update is
\* in progress shows the four fields as they were before it or as they are
\* after it.
C10_SnapshotNotTorn ==
    [][(reader = "g928" /\ reader' = "g929" /\ uplock # 0)
          => Quad(extraction_state) \in {pre, CbArgs(uplock)}]_vars

\* C11: every write to the job state is made by a thread that holds
\* extraction_lock: a request handler inside its `with` block while no worker
\* holds the lock, or a worker while no handler is inside its block and no
\* other worker holds the lock.
C11_WritesUnderLock ==
    [][extraction_state' # extraction_state
          => IF hpc' # hpc
               THEN hpc # "none" /\ uplock = 0
               ELSE /\ hpc = "none"
                    /\ \/ uplock = 0
                       \/ uplock \in Threads /\ cb[uplock] \in {"u712", "u713", "u714"}
                            /\ cb'[uplock] # cb[uplock]]_vars

\* a worker is about to write the exporting phase (line 802) while the pause
\* handler is inside its critical section
C11_WorkerWaitsForHandler ==
    /\ hpc = "pause_939"
    /\ \E t \in Threads : pc[t] = "r802"

\* C12: the status changes only along idle -> running -> completed,
\* running <-> paused, and running or paused -> stopped, running -> error
\* ('running' stands for authenticating, collecting and processing; a start
\* may reset a terminal status to 'idle'): a paused job never goes directly to
\* 'completed' or 'error', and a stop never leaves the status 'idle'.
C12_StatusTransitions ==
    [][LET Allowed ==
             {<<"idle", "running">>,
              <<"running", "paused">>, <<"paused", "running">>,
              <<"running", "completed">>, <<"running", "stopped">>, <<"running", "error">>,
              <<"paused", "stopped">>,
              <<"completed", "idle">>, <<"stopped", "idle">>, <<"error", "idle">>}
       IN  extraction_state'.status # status
              => <<status, extraction_state'.status>> \in Allowed]_vars

\* C13: on a store where A lists B and B lists A (and no page is empty), a
\* traversal that returned holds each leaf reachable from the root exactly
\* once.
C13_CycleEachLeafOnce ==
    (/\ traversal = "returned"
     /\ "B" \in Children("A") /\ "A" \in Children("B")
     /\ \A c \in Containers : \A p \in 1..Len(store[c]) : store[c][p] # {})
        => \A l \in ReachableLeaves : Occurrences(l, collected) = 1

\* C14: when no remote call failed, the list the traversal returns contains
\* every leaf that is a descendant of the root, on whatever page of whatever
\* reachable container it is listed.
C14_EveryDescendantCollected ==
    traversal = "returned"
        => \A l \in ReachableLeaves : Occurrences(l, collected) >= 1

\* C15: once a listing call has failed, the traversal never returns a list
\* (it ends raised, with nothing handed to extract_folder), and it enters no
\* further container and fetches no further page.
C15_ListingErrorAborts ==
    /\ [](failed => (traversal \in {"running", "raised"} /\ collected = <<>>))
    /\ [][failed => (/\ Len(stack') <= Len(stack)
                     /\ \A i \in 1..Len(stack') : stack'[i].page = stack[i].page
                                                  /\ stack'[i].all_files = stack[i].all_files)]_vars

\* the listing of a subfolder has failed while the root's frame already holds
\* a file
C15_FailedBelowRootWithFiles ==
    /\ failed
    /\ Len(stack) = 1
    /\ Top.at = "t303"
    /\ Top.all_files # <<>>
    /\ Cardinality(visited_folders) = 2

\* C16: with no stop request accepted, a job whose listing call raised
\* HttpError (on any page, a later one included) extracts nothing and writes
\* no export, takes the except branch to line 857, and there sets the status
\* 'error' with the failure text in the error field and no records.
C16_ListingErrorEndsInError ==
    [][\A t \in Threads :
          (exc[t] = Some("HttpError") /\ late < 0)
             => /\ pc[t] \in {"e369", "e460", "r856", "r857"}
                /\ processed[t] = 0 /\ nmeta[t] = 0 /\ written[t] = 0
                /\ (pc[t] = "r856" /\ pc'[t] # pc[t]) => pc'[t] = "r857"
                /\ (pc[t] = "r857" /\ pc'[t] # pc[t])
                     => /\ extraction_state'.status = "error"
                        /\ extraction_state'.error = Some("HttpError")
                        /\ extraction_state'.metadata = None
                        /\ extraction_state'.output_path = None]_vars

\* the listing failed on a later page (one page had been collected) and the
\* worker is in the except branch, about to record the error
C16_LaterPageFailed ==
    /\ pc[1] = "r857"
    /\ exc[1] = Some("HttpError")
    /\ files[1] >= 1
    /\ late < 0

\* C17: a job whose traversal found zero items does not end in 'error'.
C17_EmptyTraversalNotError ==
    [][\A t \in Threads :
          (Returns(t) /\ files[t] = 0 /\ late < 0
             /\ exc[t] = Some("No files found to extract"))
             => extraction_state'.status # "error"]_vars

\* C18: with no stop request accepted, a job that found at least one item and
\* extracted none of them never reaches the exports: after the last item it
\* raises at line 794 and sets the status 'error' with that failure text.
C18_NothingExtractedEndsInError ==
    [][\A t \in Threads :
          (files[t] > 0 /\ processed[t] = files[t] /\ nmeta[t] = 0 /\ late < 0)
             => /\ pc[t] \in {"e397", "e426", "e439", "e454", "r787", "r856", "r857"}
                /\ written[t] = 0
                /\ (pc[t] = "r787" /\ pc'[t] # pc[t])
                     => (pc'[t] = "r856" /\ exc'[t] = Some("No files found to extract"))
                /\ (pc[t] = "r856" /\ pc'[t] # pc[t]) => pc'[t] = "r857"
                /\ (pc[t] = "r857" /\ pc'[t] # pc[t])
                     => /\ extraction_state'.status = "error"
                        /\ extraction_state'.error = Some("No files found to extract")
                        /\ extraction_state'.metadata = None
                        /\ extraction_state'.output_path = None]_vars

\* two files were found, both extractions failed, and the worker is in the
\* except branch, about to record the error
C18_AllExtractionsFailed ==
    /\ pc[1] = "r857"
    /\ files[1] = 2 /\ processed[1] = 2 /\ nmeta[1] = 0
    /\ late < 0

\* C19: when a run of the scheduler ends, in sequential and in parallel mode,
\* every file was processed, the identifier of every file whose extraction
\* failed is in errors once, and the record of every other file is in the
\* returned list once.
C19_ItemFailureIsolated ==
    (sched # <<>> /\ sched.at \in {"s457", "done"})
        => /\ sched.processed_count = Len(items)
           /\ sched.errors = SetToBag({items[i] : i \in {j \in 1..Len(items) : items[j] \in bad}})
           /\ sched.all_metadata
                 = SetToBag({Record(items[i]) : i \in {j \in 1..Len(items) : items[j] \notin bad}})

\* a parallel run over two batches has ended with one failed file in each
C19_FailuresInTwoBatches ==
    /\ sched # <<>>
    /\ sched.at = "done"
    /\ sched.max_workers = 4
    /\ Len(items) > BatchLimit
    /\ bad = {1, Len(items)}

\* C20: on the same files, the run with concurrency 1 and the run with
\* concurrency 4 return the same set of records and hold the same set of
\* failed identifiers, whatever the order in which the pool finishes.
C20_SequentialEqualsParallel ==
    (sched # <<>> /\ sched.at = "done")
        => /\ BagToSet(sched.all_metadata) = BagToSet(sched.before[1])
           /\ BagToSet(sched.errors) = BagToSet(sched.before[2])

\* both runs have ended on three files, none of them failing, and the first
\* run returned the records of all three
C20_BothRunsDone ==
    /\ sched # <<>>
    /\ sched.at = "done"
    /\ sched.max_workers = 4
    /\ Len(items) = 3 /\ bad = {}
    /\ BagToSet(sched.before[1]) = {Record(1), Record(2), Record(3)}

C22_BatchesSequential ==
    (sched # <<>> /\ sched.max_workers > 1)
        => LET pending == {sched.queued[j] : j \in 1..Len(sched.queued)}
                               \cup sched.running \cup sched.stuck
               last == Min(sched.k + SchedBatch, Len(items))
           IN  /\ Cardinality(pending) <= 10
               /\ sched.at # "s426" => pending = {}
               /\ sched.at = "s426"
                    => /\ pending \subseteq (sched.k + 1)..last
                       /\ sched.processed_count + Cardinality(pending) = last

\* the second batch is in flight while the pool works on it
C22_SecondBatchInFlight ==
    /\ sched # <<>>
    /\ sched.max_workers = 4
    /\ sched.at = "s426"
    /\ sched.k = BatchLimit
    /\ sched.running # {}
    /\ sched.processed_count = BatchLimit

\* C23: once a pool thread's extraction blocks for ever, the scheduler still
\* finishes its run.
C23_SchedulerFinishes ==
    (sched # <<>> /\ sched.stuck # {}) ~> (sched # <<>> /\ sched.at = "done")

\* the 'processing' calls of the run's progress_callback
ProcessingCalls == SelectSeq(sched.calls, LAMBDA c : c[1] = "processing")

C24_PermutationInvariant ==
    (call # <<>> /\ call.fn = "create_forensic_hash_data" /\ call.kind = "permuted"
        /\ call.out # None /\ call.out_second # None)
        => call.out = call.out_second

\* C25: the dumped forensic data of a list of records does not change when a
\* field outside the forensic subset changes in one record.
C25_OtherFieldsIgnored ==
    (call # <<>> /\ call.fn = "create_forensic_hash_data" /\ call.kind = "other_field"
        /\ call.out # None /\ call.out_second # None)
        => call.out = call.out_second

\* both snapshots of two files were dumped, the second with another
\* version in the last record
C25_VersionChanged ==
    /\ call # <<>>
    /\ call.fn = "create_forensic_hash_data"
    /\ call.kind = "other_field"
    /\ Len(call.metadata) = 2
    /\ call.metadata[2]["version"] # call.second[2]["version"]
    /\ call.out # None /\ call.out_second # None

\* C26: the dumped forensic data of two lists of records differ when the
\* lists differ in the name, description, trashed flag, MIME type, checksum,
\* size or a raw timestamp of a record, or by one record added or removed.
C26_FollowedFieldsChange ==
    (call # <<>> /\ call.fn = "create_forensic_hash_data"
        /\ call.kind \in {"followed_field", "added", "removed"}
        /\ call.out # None /\ call.out_second # None)
        => call.out # call.out_second

\* C27: for the folder with three files, one of them trashed, and
\* include_trashed false, the listing gives the job exactly the two files
\* that are not trashed, the job extracts two records, and unless a pause or
\* a stop request is accepted the job reaches the status 'completed'; it
\* then holds the two records, unless a stop request was accepted.
C27_ThreeLeavesOneTrashed ==
    /\ [](world = "leaves"
            => /\ \A t \in Threads :
                    /\ files[t] \in {0, 2}
                    /\ pc[t] \in {"e379", "e389", "e397", "e418", "e426", "e439", "e454"}
                          => files[t] = 2
                    /\ nmeta[t] <= 2
               /\ (status = "completed" /\ late < 0)
                    => /\ extraction_state.metadata = Some(2)
                       /\ extraction_state.total = 2)
    /\ (world = "leaves" /\ nstarted = 1)
          ~> (status \in {"completed", "paused"} \/ late >= 0)

\* the job on the folder has completed with two records, no stop accepted
C27_ScenarioCompleted ==
    /\ world = "leaves"
    /\ status = "completed"
    /\ extraction_state.metadata = Some(2)
    /\ pc[1] = "done"
    /\ late < 0

\* C28: the step that accepts a start leaves progress 0, total 0, no error,
\* no records and no output path, and from then on records, an error or an
\* output path are written into the job state by the newest job only.
C28_StartResetsJobState ==
    [][/\ (hpc = "start_896" /\ hpc' = "none")
            => /\ extraction_state'.progress = 0
               /\ extraction_state'.total = 0
               /\ extraction_state'.error = None
               /\ extraction_state'.metadata = None
               /\ extraction_state'.output_path = None
       /\ \A t \in Threads :
             (/\ pc'[t] # pc[t]
              /\ \/ extraction_state'.metadata \notin {None, extraction_state.metadata}
                 \/ extraction_state'.error \notin {None, extraction_state.error}
                 \/ extraction_state'.output_path \notin {None, extraction_state.output_path})
                => t = nstarted]_vars

\* the key of a record and the key of the file it is read from, for the
\* fields C29 gives a sentinel for, and the sentinel
Sentinels ==
    {<<"id", "id", NA>>, <<"name", "name", NA>>, <<"mime_type", "mimeType", NA>>,
     <<"md5_checksum", "md5Checksum", NA>>, <<"version", "version", NA>>,
     <<"share_link", "webViewLink", NA>>,
     <<"owner_email", "owners", NA>>, <<"owner_name", "owners", NA>>,
     <<"last_modifier_email", "lastModifyingUser", NA>>,
     <<"last_modifier_name", "lastModifyingUser", NA>>,
     <<"description", "description", Str(<<>>)>>,
     <<"shared", "shared", Bool(FALSE)>>, <<"trashed", "trashed", Bool(FALSE)>>,
     <<"starred", "starred", Bool(FALSE)>>,
     <<"size_bytes", "size", Str(<<"0">>)>>}

\* C29: extract_file_metadata raises nothing whatever keys the file lacks,
\* and in the record it returns every field whose key is missing holds its
\* sentinel.
C29_NormalizeNeverFails ==
    (call # <<>> /\ call.fn = "extract_file_metadata" /\ call.out # None)
        => /\ call.out[1] # Raised
           /\ \A f \in Sentinels :
                 f[2] \notin DOMAIN call.file => call.out[1][2][f[1]] = f[3]

\* the record of a file with no key at all was built
C29_EmptyFileNormalized ==
    /\ call # <<>>
    /\ call.fn = "extract_file_metadata"
    /\ DOMAIN call.file = {}
    /\ call.out # None
    /\ call.out[1] # Raised
    /\ call.out[1][2]["file_type"] = Str(<<>>)

\* C31: during a recursive collection the count passed to each 'collecting'
\* callback is the number of leaves found so far in the whole traversal, and
\* it never decreases from one callback to the next.
C31_CountIsFoundSoFar ==
    observed # <<>> =>
        LET c == observed.callbacks
        IN  /\ \A i \in 1..Len(c) : c[i].count = c[i].found
            /\ \A i \in 1..(Len(c) - 1) : c[i].count <= c[i + 1].count

\* C33: in one recursive traversal each distinct container has its children
\* listed at most once, whatever the containment graph: no folder occurs twice
\* among the listings begun, and their number never exceeds the number of
\* distinct containers reachable from the root.
C33_ListedAtMostOnce ==
    observed # <<>> =>
        /\ \A c \in Containers : Occurrences(c, observed.listed) <= 1
        /\ Len(observed.listed) <= Cardinality(Closure({Root}))

\* a traversal returned from a store in which the root and the other folder
\* list each other and the other folder lists itself as well
C33_CycleTraversed ==
    /\ traversal = "returned"
    /\ "B" \in Children("A")
    /\ {"A", "B"} \subseteq Children("B")
    /\ observed.listed = <<"A", "B">>

\* C32: every item the traversal hands to the scheduler is a leaf, no folder
\* is among them, with a root (SpecTraverse) and without one (SpecListAll).
C32_OnlyLeavesCollected ==
    traversal = "returned" => \A i \in 1..Len(collected) : collected[i] \in Leaves

\* C34: computing the fingerprint and exporting do not modify the records:
\* during and after create_forensic_hash_data and each exporter, the list
\* holds the same dicts in the same order, each with the same values, as when
\* the call was made.
C34_ListNotModified ==
    call # <<>> => Deref(call.metadata, call.objects) = call.before

\* the JSON exporter finished on a list of two records that is not in the
\* order of the ids and holds a name with a trailing blank
C34_UnsortedListExported ==
    /\ call # <<>>
    /\ call.fn = "JSONExporter.export"
    /\ call.at = "done"
    /\ call.written # None
    /\ Len(call.before) = 2
    /\ call.before[1]["id"] = Str(<<"2">>)
    /\ call.before[2]["id"] = Str(<<"1">>)
    /\ call.before[1]["name"] = Str(<<"a", " ">>)

\* C35: at most one extraction worker is active at any time: a new worker
\* thread is never started while a previous one is still executing.
C35_OneWorkerAtATime ==
    Cardinality({t \in Threads : pc[t] \notin {"unborn", "done"}}) <= 1

\* C36: a job for which a stop request was accepted never writes an export
\* and never sets the status to 'completed' afterwards, also when a new start
\* is accepted before its worker has returned.
C36_StoppedJobWritesNothing ==
    [][(late >= 0 /\ stopN >= 1) =>
          /\ written'[stopN] <= written[stopN]
          /\ ~(pc[stopN] = "r848" /\ pc'[stopN] # "r848")]_vars

\* C37: at every point of a scheduler run the processed count equals the
\* records so far plus the failures so far, and when the run finishes the
\* processed count, and the records plus the failures, equal the number of
\* input items: every item was counted exactly once.
C37_EveryItemCountedOnce ==
    sched # <<>> =>
        /\ sched.processed_count
              = BagCardinality(sched.all_metadata) + BagCardinality(sched.errors)
        /\ sched.at \in {"s457", "done"} =>
              /\ sched.processed_count = Len(items)
              /\ BagCardinality(sched.all_metadata) + BagCardinality(sched.errors) = Len(items)
              /\ \A i \in 1..Len(items) :
                    CopiesIn(Record(items[i]), sched.all_metadata)
                        + CopiesIn(items[i], sched.errors) = 1

\* the parallel run finished on more files than one batch holds, two of
\* them failing
C37_TwoBatchesTwoFailures ==
    /\ sched # <<>>
    /\ sched.at = "done"
    /\ sched.max_workers = Parallel
    /\ Len(items) > BatchLimit
    /\ BagCardinality(sched.errors) = 2
    /\ sched.processed_count = Len(items)

\* C38: the status and the control flags agree: whenever extraction_lock is
\* free (no handler and no worker is inside a block that writes the status),
\* the status is 'paused' only if the pause flag is set and the stop flag is
\* clear.
C38_PausedMeansPauseFlag ==
    (LockFree /\ extraction_state.status = "paused") => (pause_event /\ ~stop_event)

\* a start request is taken up in this step
StartRequest == hpc = "none" /\ hpc' \in {"start_894", "start_400"}

\* C39: a start request whose non-empty folder reference resolves to no
\* folder identifier, and a start request issued while the status is
\* 'running', take the refusing branch, start no worker, and neither that
\* step nor the return of the error changes the job state or a control flag.
C39_BadStartRejected ==
    [][/\ (StartRequest /\ (status = "running" \/ Refused(call.folder_id_input)))
            => (hpc' = "start_400" /\ UNCHANGED <<ctl, nstarted, pc>>)
       /\ (hpc = "start_400" /\ hpc' = "none") => UNCHANGED <<ctl, nstarted, pc>>]_vars

\* a start request with a link that ends after /drive/folders/ is refused,
\* no job having been started
C39_LinkWithoutIdRefused ==
    /\ hpc = "start_400"
    /\ call # <<>>
    /\ call.folder_id_input = Str(<<Host, "/drive/folders/">>)
    /\ nstarted = 0
    /\ extraction_state = IdleState(Msg("", 0, 0))

====
